---- MODULE Spec2Model ----
(***************************************************************************)
(* PopClock (popclock.cpp) with its DigitalClock (digitalclock.cpp): the   *)
(* particle pool, the static mass grid with its bottom-up automaton, and   *)
(* the per-tick driver PopClock::simulate.                                 *)
(*                                                                         *)
(* Numbers.  The doubles x, y, dx, dy, tv of a particle are fixed-point    *)
(* integers with Scale units per grid cell; a product with a constant      *)
(* factor is truncated toward zero.  A double converted to int (the        *)
(* arguments of the std::function<bool(int,int)> obstacle test, of         *)
(* StaticParticles::set and of pixel_at) is truncated toward zero, as C++  *)
(* does.  The three random_frac draws and the two coin flips of            *)
(* Particle::pop are a nondeterministic choice from Draws.  The            *)
(* unqualified abs() calls take the floating-point overload, which the     *)
(* standard library headers behind SDL.h bring into the global namespace.  *)
(*                                                                         *)
(* Display.  The digit layout is computed by the formulas of the           *)
(* DigitalClock constructor and Digit::size_for from the display size and  *)
(* the segment thickness st.  The real display is hundreds of pixels wide  *)
(* with st = 8; the model scales the display and st down together, so that *)
(* a segment is one cell.                                                  *)
(*                                                                         *)
(* Pool.  The compaction of PopClock::simulate needs a pool of more than   *)
(* k_defragment_threshold = 128 slots.  Spec keeps that constant, so its   *)
(* small pools are never compacted; SpecCompact runs the same driver with  *)
(* the threshold scaled down to SmallThreshold, so that compaction happens *)
(* between the sweep and the grid pass of its ticks.                       *)
(***************************************************************************)
EXTENDS Integers, Sequences, FiniteSets, TLC

\* ---------------------------------------------------------------- bounds
\* Display size given to PopClock(w, h) in the driver specification.
W == 20
H == 10
\* Segment thickness in cells (scaled with the display).
st == 1
\* Largest pool size the model explores (the pool itself is unbounded).
MaxPool == 3
\* Ticks a run of Spec takes (the wall clock may change at every one).
MaxTicks == 3
\* Size of the grid and number of calls in the StaticParticles
\* specification.
GridW == 3
GridH == 2
MaxCalls == 3
\* The compaction threshold of SpecCompact (scaled with the pool).
SmallThreshold == 1

\* ------------------------------------------------------------- constants
Scale == 100
k_gravity == Scale \div 100
k_movement_epsilon == Scale \div 10

\* dx *= -k_elasticity, dx *= k_friction, dx *= 0.25: truncated products.
MulTrunc(v, n, d) == IF v >= 0 THEN (v * n) \div d ELSE -(((-v) * n) \div d)
\* A bounce that loses nothing.
Elastic_lossless(v) == -v
Elastic(v) == -MulTrunc(v, 1, 2)
Friction(v) == MulTrunc(v, 8, 10)
Damp(v) == MulTrunc(v, 1, 4)
Abs(v) == IF v >= 0 THEN v ELSE -v
Min2(a, b) == IF a <= b THEN a ELSE b
Max2(a, b) == IF a >= b THEN a ELSE b

\* Op applied to the value of the one element of the set one: a loop body
\* is evaluated once before the loop goes on.
Then(one, Op(_)) == CHOOSE out \in { Op(v) : v \in one } : TRUE

\* double -> int conversion at a call taking int.
ToInt(v) == IF v >= 0 THEN v \div Scale ELSE -((-v) \div Scale)

k_defragment_threshold == 128
k_defragment_factor == 2

VARIABLES
    w, h,                   \* PopClock::w, h (= StaticParticles::w_, h_)
    fb,                     \* DigitalClock::fb: the set of non-zero pixels
    segment,                \* DigitalClock::digits[d].segment[s]
    last_second_,           \* DigitalClock::last_second_
    last_minute_,           \* DigitalClock::last_minute_
    palette1,               \* colour 1 of the clock palette, as mapped ARGB
    needs_paint,
    particles,              \* std::vector<Particle>
    have_live_particles,
    color_,                 \* StaticParticles::color_, index x + y*w_
    needs_sim_up_to,
    last_second,            \* static of PopClock::simulate
    last_hour,              \* static of PopClock::simulate
    previous_segments,      \* static of PopClock::simulate
    pc,                     \* position inside PopClock::simulate
    wall,                   \* wall-clock time (std::localtime) as last read
    ticks,                  \* ticks run so far (bounded count)
    hist,                   \* what the last step did (history only)
    generator,              \* PopClock::generator: the stream still to draw
    process,                \* the engines of the process (history only)
    menu                    \* Hack::Menu and the loop of menu() around it

vars == <<w, h, fb, segment, last_second_, last_minute_, palette1,
          needs_paint, particles, have_live_particles, color_,
          needs_sim_up_to, last_second, last_hour, previous_segments,
          pc, wall, ticks, hist, generator, process, menu>>

\* ------------------------------------------------------- Particle
\* Particle(): active(false); the other fields are written by pop before
\* they are read.  origin, src and mass are history only: the rule that
\* spawned the particle, the grid index it was popped from and the value
\* that cell held.
BlankParticle ==
    [active |-> FALSE, x |-> 0, y |-> 0, dx |-> 0, dy |-> 0, tv |-> 0,
     color |-> 0, origin |-> "none", src |-> -1, mass |-> 0]

\* One outcome of the five draws of Particle::pop: three random_frac values
\* (in hundredths) and two coin flips.  A zero draw is also what the pop
\* gives where a build resolves the unqualified abs() to the int overload.
Draws ==
    { [f_tv |-> 0,  f_dx |-> 0,  c_dx |-> 0, f_dy |-> 0,  c_dy |-> 0],
      [f_tv |-> 99, f_dx |-> 99, c_dx |-> 0, f_dy |-> 99, c_dy |-> 1],
      [f_tv |-> 0,  f_dx |-> 20, c_dx |-> 1, f_dy |-> 50, c_dy |-> 0] }
ZeroDraw == [f_tv |-> 0, f_dx |-> 0, c_dx |-> 0, f_dy |-> 0, c_dy |-> 0]

\* A pop whose terminal velocity has no lower bound.
pop_no_floor(x, y, c, d) ==
    LET tv == (d.f_tv * 7 * Scale) \div 1000
        ax == (d.f_dx * tv) \div 100
        ay == (d.f_dy * tv) \div 100
    IN  [BlankParticle EXCEPT
            !.active = TRUE, !.x = x * Scale, !.y = y * Scale,
            !.dx = IF d.c_dx = 1 THEN -ax ELSE ax,
            !.dy = IF d.c_dy = 1 THEN -ay ELSE ay,
            !.tv = tv, !.color = c]

\* A pop that leaves the colour of the particle unset.
pop_uncoloured(x, y, c, d) ==
    LET tv == ((d.f_tv * 7 * Scale) \div 1000) + ((3 * Scale) \div 10)
        ax == (d.f_dx * tv) \div 100
        ay == (d.f_dy * tv) \div 100
    IN  [BlankParticle EXCEPT
            !.active = TRUE, !.x = x * Scale, !.y = y * Scale,
            !.dx = IF d.c_dx = 1 THEN -ax ELSE ax,
            !.dy = IF d.c_dy = 1 THEN -ay ELSE ay,
            !.tv = tv]

\* A pop that gives the particle no horizontal velocity.
pop_straight(x, y, c, d) ==
    LET tv == ((d.f_tv * 7 * Scale) \div 1000) + ((3 * Scale) \div 10)
        ay == (d.f_dy * tv) \div 100
    IN  [BlankParticle EXCEPT
            !.active = TRUE, !.x = x * Scale, !.y = y * Scale,
            !.dx = 0,
            !.dy = IF d.c_dy = 1 THEN -ay ELSE ay,
            !.tv = tv, !.color = c]

\* Particle::pop at cell (x, y) with colour c and the draws d.
pop(x, y, c, d) ==
    LET tv == ((d.f_tv * 7 * Scale) \div 1000) + ((3 * Scale) \div 10)
        ax == (d.f_dx * tv) \div 100
        ay == (d.f_dy * tv) \div 100
    IN  [BlankParticle EXCEPT
            !.active = TRUE, !.x = x * Scale, !.y = y * Scale,
            !.dx = IF d.c_dx = 1 THEN -ax ELSE ax,
            !.dy = IF d.c_dy = 1 THEN -ay ELSE ay,
            !.tv = tv, !.color = c]

\* The history fields of a particle just popped.
Tagged(p, origin, src, mass) ==
    [p EXCEPT !.origin = origin, !.src = src, !.mass = mass]

\* A stop that leaves the particle as it is.
stop_keeps_active(p) == p

stop(p) == [p EXCEPT !.active = FALSE]

\* ------------------------------------------------ StaticParticles
\* S is the part of PopClock that the pool and grid methods change:
\* [particles, have_live_particles, color_, needs_sim_up_to].
InGrid(x, y) == ~(x < 0 \/ x >= w \/ y < 0 \/ y >= h)

unsafe_at(S, x, y) == S.color_[x + (y * w)]

get(S, x, y) == IF ~InGrid(x, y) THEN 0 ELSE unsafe_at(S, x, y)

\* A set that lowers the cursor without looking at the coordinates.
set_cursor_unchecked(S, x, y, c) ==
    IF ~InGrid(x, y)
    THEN [S EXCEPT !.needs_sim_up_to = Min2(@, Max2(0, y - 1))]
    ELSE [S EXCEPT !.color_[x + (y * w)] = c,
                   !.needs_sim_up_to = Min2(@, Max2(0, y - 1))]

\* A set that writes the cell and leaves the cursor alone.
set_keep_cursor(S, x, y, c) ==
    IF ~InGrid(x, y) THEN S
    ELSE [S EXCEPT !.color_[x + (y * w)] = c]

\* A set that makes room in the pool for the grain it writes.
set_allocating(S, x, y, c) ==
    IF ~InGrid(x, y) THEN S
    ELSE [S EXCEPT !.color_[x + (y * w)] = c,
                   !.needs_sim_up_to = Min2(@, Max2(0, y - 1)),
                   !.particles = Append(@, BlankParticle)]

set(S, x, y, c) ==
    IF ~InGrid(x, y) THEN S
    ELSE [S EXCEPT !.color_[x + (y * w)] = c,
                   !.needs_sim_up_to = Min2(@, Max2(0, y - 1))]

force_full_simulate_next(S, up_to) == [S EXCEPT !.needs_sim_up_to = up_to]

\* DigitalClock::solid_at: the pixel of fb is non-zero.
solid_at(x, y) == <<x, y>> \in fb

\* An allocation that does not raise have_live_particles.
find_free_particle_quiet(S) == [S EXCEPT !.particles = Append(@, BlankParticle)]

\* An allocation that hands out the last slot of the pool as it is.
find_free_particle_no_growth(S) == [S EXCEPT !.have_live_particles = TRUE]

\* find_free_particle: the pool after the call; the index returned is its
\* last one.
find_free_particle(S) ==
    [S EXCEPT !.particles = Append(@, BlankParticle),
              !.have_live_particles = TRUE]

\* The draw the next pop takes: T.draws is the sequence of draws of the
\* running step, T.base the pool size when the step began.
NextDraw(S, T) ==
    LET k == (Len(S.particles) - T.base) + 1
    IN  IF k \in DOMAIN T.draws THEN T.draws[k] ELSE ZeroDraw

\* std::default_random_engine.  A free generator stands for any stream:
\* every step draws what it likes.  A seeded one hands out its stream in
\* order, pos draws being taken already.
FreeGenerator == [free |-> TRUE, stream |-> <<>>, pos |-> 0]
Seeded(stream) == [free |-> FALSE, stream |-> stream, pos |-> 0]

\* The draw sequences a step that pops n particles may see.
Tapes(n) ==
    IF generator.free THEN [1..n -> Draws]
    ELSE IF generator.pos + n <= Len(generator.stream)
    THEN { [k \in 1..n |-> generator.stream[generator.pos + k]] }
    ELSE {}

\* The generator after n pops.
Advance(n) ==
    IF generator.free THEN generator ELSE [generator EXCEPT !.pos = @ + n]

\* A try_pop that leaves the static mass in place.
try_pop_keep(S, x, y, here, down, T, origin) ==
    LET S1 == find_free_particle(S)
        i  == Len(S1.particles)
        p  == Tagged(pop(x, y, here, NextDraw(S, T)), origin, x + (y * w), here)
        q  == IF down THEN [p EXCEPT !.dy = Abs(p.dy)] ELSE p
    IN  [S1 EXCEPT !.particles[i] = q]

\* A try_pop that compacts the pool between taking the index and using it.
try_pop_compacting(S, x, y, here, down, T, origin) ==
    LET S1 == [find_free_particle(S) EXCEPT
                  !.particles = SelectSeq(@, LAMBDA p : p.active)]
        i  == Len(S1.particles)
        p  == Tagged(pop(x, y, here, NextDraw(S, T)), origin, x + (y * w), here)
        q  == IF down THEN [p EXCEPT !.dy = Abs(p.dy)] ELSE p
    IN  set([S1 EXCEPT !.particles[i] = q], x, y, 0)

\* A try_pop that leaves the vertical direction as drawn.
try_pop_any_direction(S, x, y, here, down, T, origin) ==
    LET S1 == find_free_particle(S)
        i  == Len(S1.particles)
        p  == Tagged(pop(x, y, here, NextDraw(S, T)), origin, x + (y * w), here)
    IN  set([S1 EXCEPT !.particles[i] = p], x, y, 0)

\* try_pop: the new particle is the last one of the pool.
try_pop(S, x, y, here, down, T, origin) ==
    LET S1 == find_free_particle(S)
        i  == Len(S1.particles)
        p  == Tagged(pop(x, y, here, NextDraw(S, T)), origin, x + (y * w), here)
        q  == IF down THEN [p EXCEPT !.dy = Abs(p.dy)] ELSE p
    IN  set([S1 EXCEPT !.particles[i] = q], x, y, 0)

Last(S) == Len(S.particles)

\* The obstacles argument of StaticParticles::simulate is the set m of the
\* cells where it answers true.
\* A hit check that leaves the mass where it is.
crush_keep(S, x, y) == S

\* A hit check that turns the crushed mass into a particle.
crush_spawning(S, x, y) ==
    try_pop(S, x, y, unsafe_at(S, x, y), TRUE,
            [base |-> Len(S.particles), draws |-> <<>>], "crush")

\* "Hit check; get crushed by obstacles": the effect on a solid cell.
crush(S, x, y) == set(S, x, y, 0)

\* A fall check that looks at the floor only.
fall_check_floor_only(S, m, drop_bottom, x, y) ==
    (y + 1 >= h) /\ drop_bottom

\* "Fall check".
fall_check(S, m, drop_bottom, x, y) ==
    IF y + 1 >= h THEN drop_bottom
    ELSE (get(S, x, y + 1) = 0) /\ (<<x, y + 1>> \notin m)

\* A fall that moves the mass one cell down inside the grid.
fall_in_grid(S, x, y, here, T) == set(set(S, x, y, 0), x, y + 1, here)

\* The fall: try_pop, then "damped horizontal movement".
fall(S, x, y, here, T) ==
    LET S1 == try_pop(S, x, y, here, TRUE, T, "fall")
    IN  [S1 EXCEPT !.particles[Last(S1)].dx = Damp(@)]

\* A spill test that forgets the wall at x = 0.
spill_left_no_wall(S, m, x, y) ==
    (get(S, x - 1, y + 1) = 0) /\ (<<x - 1, y + 1>> \notin m)

\* "Angle of repose check": down_left == 0 && !down_left_obstacle.
spill_left(S, m, x, y) ==
    (get(S, x - 1, y + 1) = 0)
    /\ ~(IF x = 0 THEN TRUE ELSE <<x - 1, y + 1>> \in m)

\* A spill test that forgets the wall at x = w - 1.
spill_right_no_wall(S, m, x, y) ==
    (get(S, x + 1, y + 1) = 0) /\ (<<x + 1, y + 1>> \notin m)

\* down_right == 0 && !down_right_obstacle.
spill_right(S, m, x, y) ==
    (get(S, x + 1, y + 1) = 0)
    /\ ~(IF x = w - 1 THEN TRUE ELSE <<x + 1, y + 1>> \in m)

\* simulate_one: .did is its return value, .rule the branch taken.
simulate_one(S, m, drop_bottom, x, y, here, T) ==
    IF <<x, y>> \in m
    THEN [S |-> crush(S, x, y), did |-> TRUE, rule |-> "crush"]
    ELSE IF fall_check(S, m, drop_bottom, x, y)
    THEN [S |-> fall(S, x, y, here, T), did |-> TRUE, rule |-> "fall"]
    ELSE IF spill_left(S, m, x, y)
    THEN IF spill_right(S, m, x, y)
         THEN [S |-> try_pop(S, x, y, here, TRUE, T, "repose"),
               did |-> TRUE, rule |-> "repose"]
         ELSE Then({try_pop(S, x, y, here, TRUE, T, "repose")}, LAMBDA S1 :
              [S |-> [S1 EXCEPT !.particles[Last(S1)].dx = -Abs(@)],
               did |-> TRUE, rule |-> "repose"])
    ELSE IF spill_right(S, m, x, y)
    THEN Then({try_pop(S, x, y, here, TRUE, T, "repose")}, LAMBDA S1 :
         [S |-> [S1 EXCEPT !.particles[Last(S1)].dx = Abs(@)],
          did |-> TRUE, rule |-> "repose"])
    ELSE [S |-> S, did |-> FALSE, rule |-> "none"]

\* The inner loop of StaticParticles::simulate: row y from column x on.
\* R = [S, did, visits]; visits lists the occupied cells examined with the
\* rule applied (history only).
RECURSIVE SimRow(_, _, _, _, _, _)
SimRow(R, m, drop_bottom, y, x, T) ==
    IF x >= w THEN R
    ELSE IF unsafe_at(R.S, x, y) > 0
    THEN Then({simulate_one(R.S, m, drop_bottom, x, y,
                            unsafe_at(R.S, x, y), T)}, LAMBDA r :
         Then({[S |-> r.S, did |-> R.did \/ r.did,
                visits |-> Append(R.visits,
                                  [x |-> x, y |-> y, rule |-> r.rule])]},
              LAMBDA R1 : SimRow(R1, m, drop_bottom, y, x + 1, T)))
    ELSE SimRow(R, m, drop_bottom, y, x + 1, T)

\* An outer loop that takes the same rows from the top one down.
RECURSIVE SimRows_top_down(_, _, _, _, _, _)
SimRows_top_down(R, m, drop_bottom, y, last_y, T) ==
    IF y < last_y THEN R
    ELSE Then({SimRow(R, m, drop_bottom, last_y, 0, T)},
              LAMBDA R1 : SimRows_top_down(R1, m, drop_bottom, y, last_y + 1,
                                           T))

\* The outer loop: rows from y down to last_y.
RECURSIVE SimRows(_, _, _, _, _, _)
SimRows(R, m, drop_bottom, y, last_y, T) ==
    IF y < last_y THEN R
    ELSE Then({SimRow(R, m, drop_bottom, y, 0, T)},
              LAMBDA R1 : SimRows(R1, m, drop_bottom, y - 1, last_y, T))

\* A first row that is always the bottom row.
start_y_bottom(drop_bottom) == h - 1

start_y(drop_bottom) == h - (IF drop_bottom THEN 1 ELSE 2)

stop_y(S, drop_bottom) ==
    Min2(S.needs_sim_up_to, IF drop_bottom THEN h - 1 ELSE h)

\* StaticParticles::simulate; .did is its return value.
simulate(S, drop_bottom, m, T) ==
    SimRows([S |-> [S EXCEPT !.needs_sim_up_to = h], did |-> FALSE,
             visits |-> <<>>],
            m, drop_bottom, start_y(drop_bottom), stop_y(S, drop_bottom), T)

\* The loops of StaticParticles::pop_all.
RECURSIVE PopRow(_, _, _, _)
PopRow(S, y, x, T) ==
    IF x >= w THEN S
    ELSE IF unsafe_at(S, x, y) > 0
    THEN Then({try_pop(S, x, y, unsafe_at(S, x, y), FALSE, T, "erupt")},
              LAMBDA S1 : PopRow(S1, y, x + 1, T))
    ELSE PopRow(S, y, x + 1, T)

RECURSIVE PopRows(_, _, _)
PopRows(S, y, T) ==
    IF y >= h THEN S
    ELSE Then({PopRow(S, y, 0, T)}, LAMBDA S1 : PopRows(S1, y + 1, T))

pop_all(S, T) == [PopRows(S, 0, T) EXCEPT !.needs_sim_up_to = h]

\* ------------------------------------------- Particle::simulate
\* The obstacle test PopClock::simulate hands to Particle::simulate; x and
\* y are the int arguments of the std::function.
\* An obstacle test whose floor is always open.
obstacles_open_floor(S, dropout, x, y) ==
    IF y >= h THEN FALSE
    ELSE x < 0 \/ x >= w \/ y < 0 \/ y >= h
         \/ get(S, x, y) # 0 \/ solid_at(x, y)

\* An obstacle test without a ceiling.
obstacles_no_ceiling(S, dropout, x, y) ==
    IF dropout /\ y >= h THEN FALSE
    ELSE x < 0 \/ x >= w \/ y >= h
         \/ get(S, x, y) # 0 \/ solid_at(x, y)

obstacles(S, dropout, x, y) ==
    IF dropout /\ y >= h THEN FALSE
    ELSE x < 0 \/ x >= w \/ y < 0 \/ y >= h
         \/ get(S, x, y) # 0 \/ solid_at(x, y)

\* The coordinates that test hands to DigitalClock::solid_at when asked
\* about (x, y): the || chain reaches solid_at only when all before it are
\* false.
obstacles_solid_at_args(S, dropout, x, y) ==
    IF dropout /\ y >= h THEN {}
    ELSE IF x < 0 \/ x >= w \/ y < 0 \/ y >= h \/ get(S, x, y) # 0 THEN {}
    ELSE {<<x, y>>}

\* The earlier Particle::simulate: no test for a particle jammed on both
\* axes, and the speed is compared after gravity is added.
Particle_simulate_earlier(p, S, dropout) ==
    LET xp0 == p.x + p.dx
        yp0 == p.y + p.dy
        hit == obstacles(S, dropout, ToInt(xp0), ToInt(yp0))
        blocked_x == hit /\ obstacles(S, dropout, ToInt(xp0), ToInt(p.y))
        blocked_y == hit /\ obstacles(S, dropout, ToInt(p.x), ToInt(yp0))
        dx1 == IF blocked_x THEN Elastic(p.dx) ELSE p.dx
        xp  == IF blocked_x THEN p.x ELSE xp0
        dy1 == IF blocked_y THEN Elastic(p.dy) ELSE p.dy
        dx2 == IF blocked_y THEN Friction(dx1) ELSE dx1
        yp  == IF blocked_y THEN p.y ELSE yp0
        dy2 == Min2(p.tv, dy1 + k_gravity)
    IN  [p |-> [p EXCEPT !.x = xp, !.y = yp, !.dx = dx2, !.dy = dy2],
         dy |-> dy1,
         alive |-> \/ Abs(dx2) > k_movement_epsilon
                   \/ Abs(dy2) > k_movement_epsilon
                   \/ ~obstacles(S, dropout, ToInt(xp), ToInt(yp + Scale))]

\* Particle::simulate: .p is the particle after the step, .alive the
\* return value, .dy the vertical speed after the move and before gravity
\* is added.
Particle_simulate(p, S, dropout) ==
    LET xp0 == p.x + p.dx
        yp0 == p.y + p.dy
        hit == obstacles(S, dropout, ToInt(xp0), ToInt(yp0))
        blocked_x == hit /\ obstacles(S, dropout, ToInt(xp0), ToInt(p.y))
        blocked_y == hit /\ obstacles(S, dropout, ToInt(p.x), ToInt(yp0))
        dx1 == IF blocked_x THEN Elastic(p.dx) ELSE p.dx
        xp  == IF blocked_x THEN p.x ELSE xp0
        dy1 == IF blocked_y THEN Elastic(p.dy) ELSE p.dy
        dx2 == IF blocked_y THEN Friction(dx1) ELSE dx1
        yp  == IF blocked_y THEN p.y ELSE yp0
        moving == (Abs(dx2) > k_movement_epsilon)
                  \/ (Abs(dy1) > k_movement_epsilon)
        can_fall == ~obstacles(S, dropout, ToInt(xp), ToInt(yp + Scale))
        making_progress == ~blocked_x \/ ~blocked_y
    IN  [p |-> [p EXCEPT !.x = xp, !.y = yp, !.dx = dx2,
                         !.dy = Min2(p.tv, dy1 + k_gravity)],
         dy |-> dy1,
         alive |-> (moving \/ can_fall) /\ making_progress]

\* The body of the particle loop of PopClock::simulate for slot i.
\* R = [S, active_particles, settles]; settles lists the particles moved to
\* the static layer with the cell written and its value before and after
\* the write (history only).
SweepOne(R, dropout, i) ==
    IF ~R.S.particles[i].active THEN R
    ELSE Then({Particle_simulate(R.S.particles[i], R.S, dropout)}, LAMBDA r :
         Then({IF r.alive
               THEN [R.S EXCEPT !.particles[i] = r.p]
               ELSE set([R.S EXCEPT !.particles[i] = stop(r.p)],
                        ToInt(r.p.x), ToInt(r.p.y), r.p.color)}, LAMBDA S1 :
         [S |-> IF dropout /\ S1.particles[i].y >= h * Scale
                THEN [S1 EXCEPT !.particles[i] = stop(@)]
                ELSE S1,
          active_particles |-> R.active_particles + 1,
          settles |-> IF r.alive THEN R.settles
                      ELSE Append(R.settles,
                             [slot |-> i, x |-> ToInt(r.p.x),
                              y |-> ToInt(r.p.y), color |-> r.p.color,
                              origin |-> R.S.particles[i].origin,
                              src |-> R.S.particles[i].src,
                              mass |-> R.S.particles[i].mass,
                              was |-> get(R.S, ToInt(r.p.x), ToInt(r.p.y)),
                              is |-> get(S1, ToInt(r.p.x), ToInt(r.p.y))])]))

RECURSIVE SweepFrom(_, _, _)
SweepFrom(R, dropout, i) ==
    IF i > Len(R.S.particles) THEN R
    ELSE Then({SweepOne(R, dropout, i)},
              LAMBDA R1 : SweepFrom(R1, dropout, i + 1))

IsActive(p) == p.active

\* A compaction that removes nothing.
defragment_keep_all(S) == S

\* erase(remove_if(not active)): the active particles, in order.
defragment_particles(S) == [S EXCEPT !.particles = SelectSeq(@, IsActive)]

\* --------------------------------------------------- DigitalClock
\* Digit::size_for as called by the DigitalClock constructor: the rectangle
\* of segment s of digit d.
segrect(d, s) ==
    LET y0 == ((2 * h) \div 7) - (st \div 2)
        sw == (2 * w) \div 13
        sh == (3 * h) \div 14
        x0 == (((d * 3) + 1) * w) \div 13
        horizontal == s \in {0, 3, 6}
    IN  [x |-> x0 + (IF horizontal THEN st ELSE 0)
                  + (IF s \in {2, 5} THEN sw - st ELSE 0),
         y |-> y0 + (IF horizontal THEN 0 ELSE st)
                  + (IF s \in {3, 4, 5} THEN sh ELSE 0)
                  + (IF s = 6 THEN sh * 2 ELSE 0),
         w |-> IF horizontal THEN sw - (st * 2) ELSE st,
         h |-> IF horizontal THEN st ELSE sh - st]

\* Digit::number: the segments lit for n.
number(n) ==
    [s \in 0..6 |->
        CASE s = 0 -> n \in {0, 2, 3, 5, 6, 7, 8, 9}
          [] s = 1 -> n \in {0, 4, 5, 6, 7, 8, 9}
          [] s = 2 -> n \in {0, 1, 2, 3, 4, 7, 8, 9}
          [] s = 3 -> n \in {2, 3, 4, 5, 6, 8, 9}
          [] s = 4 -> n \in {0, 2, 6, 8}
          [] s = 5 -> n \in {0, 1, 3, 4, 5, 6, 7, 8, 9}
          [] s = 6 -> n \in {0, 2, 3, 5, 6, 8, 9}]

\* Digit::render of all four digits after SDL_FillRect(fb, nullptr, 0):
\* the pixels of the lit rectangles, clipped to the surface.
render_digits(seg) ==
    { c \in (0..(w - 1)) \X (0..(h - 1)) :
        \E d \in 0..3, s \in 0..6 :
            /\ seg[d][s]
            /\ segrect(d, s).x <= c[1] /\ c[1] < segrect(d, s).x + segrect(d, s).w
            /\ segrect(d, s).y <= c[2] /\ c[2] < segrect(d, s).y + segrect(d, s).h }

k_hue_rotation_minutes == 30

\* The palette colour set_time computes for the second, as the ARGB value
\* SDL_MapRGB gives: one code per hue step.  hue_to_rgb never yields black
\* (one channel is always at least 191), so the code is never 0.
hue_colour(t) ==
    1 + Min2(t.tm_sec, 59) + (60 * (t.tm_min % k_hue_rotation_minutes))

\* The palette make_surface installs: {0, 255, 0}.
initial_colour == 1 + (60 * k_hue_rotation_minutes)

\* DigitalClock::set_time: .changed is the return value, the other fields
\* are the members after the call.
set_time(t) ==
    IF last_second_ = t.tm_sec
    THEN [changed |-> FALSE, last_second_ |-> last_second_,
          last_minute_ |-> last_minute_, segment |-> segment, fb |-> fb,
          palette1 |-> palette1]
    ELSE IF last_minute_ = t.tm_min
    THEN [changed |-> FALSE, last_second_ |-> t.tm_sec,
          last_minute_ |-> last_minute_, segment |-> segment, fb |-> fb,
          palette1 |-> hue_colour(t)]
    ELSE LET seg == [d \in 0..3 |->
                        CASE d = 0 -> number(t.tm_hour \div 10)
                          [] d = 1 -> number(t.tm_hour % 10)
                          [] d = 2 -> number(t.tm_min \div 10)
                          [] d = 3 -> number(t.tm_min % 10)]
         IN  [changed |-> TRUE, last_second_ |-> t.tm_sec,
              last_minute_ |-> t.tm_min, segment |-> seg,
              fb |-> render_digits(seg), palette1 |-> hue_colour(t)]

\* ------------------------------------------- PopClock::simulate
\* A pop of the corner pixel of the rectangle alone.
PopRect_corner(S, r, yo, xo, color, T) ==
    LET S1 == find_free_particle(S)
        i  == Len(S1.particles)
        p  == Tagged(pop(r.x, r.y, color, NextDraw(S, T)), "segment", -1, 0)
    IN  [S1 EXCEPT !.particles[i] = [p EXCEPT !.dy = -Abs(p.dy)]]

\* "Pop from freshly missing segments": one particle per pixel of the
\* rectangle r, rows outermost, each thrown upward.
RECURSIVE PopRect(_, _, _, _, _, _)
PopRect(S, r, yo, xo, color, T) ==
    IF yo >= r.h THEN S
    ELSE IF xo >= r.w THEN PopRect(S, r, yo + 1, 0, color, T)
    ELSE LET S1 == find_free_particle(S)
             i  == Len(S1.particles)
             p  == Tagged(pop(r.x + xo, r.y + yo, color, NextDraw(S, T)),
                          "segment", -1, 0)
         IN  Then({[S1 EXCEPT !.particles[i] = [p EXCEPT !.dy = -Abs(p.dy)]]},
                  LAMBDA S2 : PopRect(S2, r, yo, xo + 1, color, T))

\* The digit and segment loops from digit d, segment s on; present is the
\* segment table after set_time, previous the static previous_segments.
RECURSIVE PopSegments(_, _, _, _, _, _, _)
PopSegments(S, d, s, present, previous, color, T) ==
    IF d >= 4 THEN S
    ELSE IF s >= 7 THEN PopSegments(S, d + 1, 0, present, previous, color, T)
    ELSE IF ~present[d][s] /\ previous[d][s]
         THEN Then({PopRect(S, segrect(d, s), 0, 0, color, T)},
                   LAMBDA S1 : PopSegments(S1, d, s + 1, present, previous,
                                           color, T))
         ELSE PopSegments(S, d, s + 1, present, previous, color, T)

\* The clock times a tick may see (std::time is an input of the tick).
Tm(hh, mm, ss) == [tm_hour |-> hh, tm_min |-> mm, tm_sec |-> ss]
Times == { Tm(8, 8, 20), Tm(8, 0, 5), Tm(9, 8, 20) }

Pool == [particles |-> particles, have_live_particles |-> have_live_particles,
         color_ |-> color_, needs_sim_up_to |-> needs_sim_up_to]

\* No dropout at all.
Dropout_never(t) == FALSE

Dropout(t) == t.tm_min = 0 /\ t.tm_sec < 15

\* A tick that pops the vanished segments before it erupts.
BeginTick_pops_first(t, T) ==
    LET c  == set_time(t)
        S1 == IF c.changed
              THEN force_full_simulate_next(Pool, segrect(0, 0).y - 1)
              ELSE Pool
        S2 == IF c.changed
              THEN PopSegments(S1, 0, 0, c.segment, previous_segments,
                               c.palette1, T)
              ELSE S1
    IN  IF last_hour # t.tm_hour THEN pop_all(S2, T) ELSE S2

\* A tick that erupts whenever the clock shape changes.
BeginTick_on_change(t, T) ==
    LET c  == set_time(t)
        S1 == IF c.changed
              THEN force_full_simulate_next(Pool, segrect(0, 0).y - 1)
              ELSE Pool
        S2 == IF c.changed THEN pop_all(S1, T) ELSE S1
    IN  IF c.changed
        THEN PopSegments(S2, 0, 0, c.segment, previous_segments, c.palette1, T)
        ELSE S2

\* PopClock::simulate up to the particle sweep: clock update, hourly
\* eruption, pops of the vanished segments.
BeginTick(t, T) ==
    LET c  == set_time(t)
        S1 == IF c.changed
              THEN force_full_simulate_next(Pool, segrect(0, 0).y - 1)
              ELSE Pool
        S2 == IF last_hour # t.tm_hour THEN pop_all(S1, T) ELSE S1
    IN  IF c.changed
        THEN PopSegments(S2, 0, 0, c.segment, previous_segments, c.palette1, T)
        ELSE S2

NoDraws(n) == [base |-> n, draws |-> <<>>]

TickBegin(t) ==
    /\ pc = "idle"
    /\ LET n == Len(BeginTick(t, NoDraws(Len(particles))).particles)
                - Len(particles)
       IN  /\ Len(particles) + n <= MaxPool
           /\ generator' = Advance(n)
           /\ \E ds \in Tapes(n) :
                \E c \in {set_time(t)},
                   S \in {BeginTick(t, [base |-> Len(particles),
                                        draws |-> ds])} :
                    /\ particles' = S.particles
                    /\ have_live_particles' = S.have_live_particles
                    /\ color_' = S.color_
                    /\ needs_sim_up_to' = S.needs_sim_up_to
                    /\ fb' = c.fb
                    /\ segment' = c.segment
                    /\ last_second_' = c.last_second_
                    /\ last_minute_' = c.last_minute_
                    /\ palette1' = c.palette1
                    /\ needs_paint' =
                          (needs_paint \/ c.changed \/ last_second # t.tm_sec)
                    /\ last_second' = t.tm_sec
                    /\ last_hour' = t.tm_hour
                    /\ previous_segments' =
                          IF c.changed THEN c.segment ELSE previous_segments
                    /\ hist' = [step |-> "begin", pre |-> Pool, pre_fb |-> fb,
                                tick |-> Pool,
                                changed |-> c.changed,
                                erupted |-> (last_hour # t.tm_hour),
                                drop |-> Dropout(t), did |-> FALSE,
                                settles |-> <<>>, visits |-> <<>>,
                                compacted |-> FALSE, shown |-> hist.shown,
                                previous |-> previous_segments]
    /\ wall' = t
    /\ ticks' = IF ticks < MaxTicks THEN ticks + 1 ELSE ticks
    /\ process' = IF process.record /\ process.engine = 1
                  THEN [process EXCEPT !.times = Append(@, t)]
                  ELSE process
    /\ pc' = "sweep"
    /\ UNCHANGED <<menu, w, h>>

\* A sweep that clears have_live_particles when it leaves no particle
\* active.
Sweep_clears_when_settled(threshold) ==
    /\ pc = "sweep"
    /\ IF have_live_particles
       THEN \E R \in {SweepFrom([S |-> Pool, active_particles |-> 0,
                                  settles |-> <<>>], Dropout(wall), 1)} :
            LET S1 == IF \A i \in DOMAIN R.S.particles :
                            ~R.S.particles[i].active
                      THEN [R.S EXCEPT !.have_live_particles = FALSE]
                      ELSE R.S
                compact ==
                    /\ Len(S1.particles) > threshold
                    /\ (R.active_particles * k_defragment_factor)
                          < Len(S1.particles)
                S2 == IF compact THEN defragment_particles(S1) ELSE S1
            IN  /\ particles' = S2.particles
                /\ have_live_particles' = S2.have_live_particles
                /\ color_' = S2.color_
                /\ needs_sim_up_to' = S2.needs_sim_up_to
                /\ needs_paint' = TRUE
                /\ hist' = [hist EXCEPT !.step = "sweep", !.pre = Pool,
                                        !.pre_fb = fb,
                                        !.settles = R.settles,
                                        !.compacted = compact]
       ELSE /\ UNCHANGED <<particles, have_live_particles, color_,
                           needs_sim_up_to, needs_paint>>
            /\ hist' = [hist EXCEPT !.step = "sweep", !.pre = Pool,
                                    !.pre_fb = fb]
    /\ pc' = "grid"
    /\ UNCHANGED <<menu, w, h, fb, segment, last_second_, last_minute_, palette1,
                   last_second, last_hour, previous_segments, wall, ticks,
                   generator, process>>

\* "Simulate particles": the sweep, the have_live_particles reset and the
\* compaction, which runs when the pool is larger than threshold.
Sweep(threshold) ==
    /\ pc = "sweep"
    /\ IF have_live_particles
       THEN \E R \in {SweepFrom([S |-> Pool, active_particles |-> 0,
                                  settles |-> <<>>], Dropout(wall), 1)} :
            LET S1 == IF R.active_particles = 0
                      THEN [R.S EXCEPT !.have_live_particles = FALSE]
                      ELSE R.S
                compact ==
                    /\ Len(S1.particles) > threshold
                    /\ (R.active_particles * k_defragment_factor)
                          < Len(S1.particles)
                S2 == IF compact THEN defragment_particles(S1) ELSE S1
            IN  /\ particles' = S2.particles
                /\ have_live_particles' = S2.have_live_particles
                /\ color_' = S2.color_
                /\ needs_sim_up_to' = S2.needs_sim_up_to
                /\ needs_paint' = TRUE
                /\ hist' = [hist EXCEPT !.step = "sweep", !.pre = Pool,
                                        !.pre_fb = fb,
                                        !.settles = R.settles,
                                        !.compacted = compact]
       ELSE /\ UNCHANGED <<particles, have_live_particles, color_,
                           needs_sim_up_to, needs_paint>>
            /\ hist' = [hist EXCEPT !.step = "sweep", !.pre = Pool,
                                    !.pre_fb = fb]
    /\ pc' = "grid"
    /\ UNCHANGED <<menu, w, h, fb, segment, last_second_, last_minute_, palette1,
                   last_second, last_hour, previous_segments, wall, ticks,
                   generator, process>>

ParticleSweep == Sweep(k_defragment_threshold)

\* The rows the loop of StaticParticles::simulate reads with unsafe_at.
RowsRead(S, drop_bottom) == stop_y(S, drop_bottom)..start_y(drop_bottom)

\* What lies in memory outside the two buffers, as far as a pass reads it:
\* a value in front of color_ and a pixel in front of the clock surface.
StrayValue == 7
NoStray == [cells |-> {}, solid |-> {}]

\* The reads of rows above row 0 are outside color_ (unsafe_at) and outside
\* the clock surface (solid_at): any value may be found there.  A pass
\* that stays inside the grid reads none of it.
Stray(S, drop_bottom) ==
    IF \A y \in RowsRead(S, drop_bottom) : y >= 0 THEN {NoStray}
    ELSE { NoStray,
           [cells |-> {3 - w}, solid |-> {}],
           [cells |-> {3 - w}, solid |-> {<<3, -1>>}],
           [cells |-> {(w - 4) - w}, solid |-> {}] }

\* The grid with the memory in front of it, as unsafe_at sees it.
WithStray(S, junk) ==
    IF \A y \in RowsRead(S, Dropout(wall)) : y >= 0 THEN S
    ELSE [S EXCEPT !.color_ =
             [i \in (stop_y(S, Dropout(wall)) * w)..((w * h) - 1) |->
                 IF i >= 0 THEN S.color_[i]
                 ELSE IF i \in junk.cells THEN StrayValue ELSE 0]]

\* The result of a pass with color_ as the vector holds it.
Trimmed(r) ==
    [r EXCEPT !.S.color_ = [i \in 0..((w * h) - 1) |-> r.S.color_[i]]]

\* "Simulate the static particle mass": the obstacle test of the pass is
\* DigitalClock::solid_at alone.
GridPass ==
    /\ pc = "grid"
    /\ \E junk \in Stray(Pool, Dropout(wall)) :
       LET n == Len(simulate(WithStray(Pool, junk), Dropout(wall),
                             fb \cup junk.solid,
                             NoDraws(Len(particles))).S.particles)
                - Len(particles)
       IN  /\ Len(particles) + n <= MaxPool
           /\ generator' = Advance(n)
           /\ \E ds \in Tapes(n) :
                \E r \in {Trimmed(simulate(WithStray(Pool, junk),
                                            Dropout(wall), fb \cup junk.solid,
                                            [base |-> Len(particles),
                                             draws |-> ds]))} :
                    /\ process' =
                          IF ~process.record THEN process
                          ELSE [process EXCEPT
                                  !.tick = @ + 1,
                                  !.after =
                                     IF process.engine = 1
                                     THEN Append(@, [particles |-> r.S.particles,
                                                     color_ |-> r.S.color_])
                                     ELSE @]
                    /\ particles' = r.S.particles
                    /\ have_live_particles' = r.S.have_live_particles
                    /\ color_' = r.S.color_
                    /\ needs_sim_up_to' = r.S.needs_sim_up_to
                    /\ needs_paint' = (needs_paint \/ r.did)
                    /\ hist' = [hist EXCEPT !.step = "grid", !.pre = Pool,
                                            !.pre_fb = fb,
                                            !.did = r.did,
                                            !.visits = r.visits]
    /\ pc' = "idle"
    /\ UNCHANGED <<menu, w, h, fb, segment, last_second_, last_minute_, palette1,
                   last_second, last_hour, previous_segments, wall, ticks>>

\* What render draws: the grid, the particles and the clock surface with
\* its palette.
Shown ==
    [color_ |-> color_, particles |-> particles, fb |-> fb,
     palette1 |-> palette1]

\* PopClock::render, called by the main loop between ticks when
\* want_render() holds.
Render ==
    /\ pc = "idle"
    /\ needs_paint
    /\ needs_paint' = FALSE
    /\ hist' = [hist EXCEPT !.step = "render", !.shown = Shown]
    /\ UNCHANGED <<menu, w, h, fb, segment, last_second_, last_minute_, palette1,
                   particles, have_live_particles, color_, needs_sim_up_to,
                   last_second, last_hour, previous_segments, pc, wall, ticks,
                   generator, process>>


\* ------------------------------------------------------- Init, Spec
NoSegments == [d \in 0..3 |-> [s \in 0..6 |-> FALSE]]

ShownDigits(t) ==
    [d \in 0..3 |->
        CASE d = 0 -> number(t.tm_hour \div 10)
          [] d = 1 -> number(t.tm_hour % 10)
          [] d = 2 -> number(t.tm_min \div 10)
          [] d = 3 -> number(t.tm_min % 10)]

\* A particle in flight (position and velocity in Scale units).
Flying(x, y, dx, dy, tv, c) ==
    [active |-> TRUE, x |-> x, y |-> y, dx |-> dx, dy |-> dy, tv |-> tv,
     color |-> c, origin |-> "seed", src |-> -1, mass |-> 0]

EmptyGrid(ww, hh) == [i \in 0..((ww * hh) - 1) |-> 0]

\* The grid with the grains gs = {<<x, y, colour>>, ...}.
GridWith(ww, hh, gs) ==
    [i \in 0..((ww * hh) - 1) |->
        IF \E g \in gs : g[1] + (g[2] * ww) = i
        THEN (CHOOSE g \in gs : g[1] + (g[2] * ww) = i)[3]
        ELSE 0]

NoHist ==
    [step |-> "init", pre |-> [particles |-> <<>>,
                               have_live_particles |-> FALSE,
                               color_ |-> <<>>, needs_sim_up_to |-> 0],
     pre_fb |-> {}, tick |-> [particles |-> <<>>,
                              have_live_particles |-> FALSE,
                              color_ |-> <<>>, needs_sim_up_to |-> 0],
     changed |-> FALSE,
     erupted |-> FALSE, drop |-> FALSE, did |-> FALSE, settles |-> <<>>,
     visits |-> <<>>, compacted |-> FALSE,
     shown |-> [color_ |-> <<>>, particles |-> <<>>, fb |-> {},
                palette1 |-> -1],
     previous |-> NoSegments]

\* The menu is not open: main runs its own loop.
NoMenu ==
    [open |-> FALSE, run |-> FALSE, page |-> "TOP",
     q_down |-> [i \in 0..3 |-> FALSE], result |-> "KEEP_MENU",
     next_hack_ |-> "", hack |-> "popclock"]

\* A process with one engine, of which no record is kept.
NoProcess ==
    [record |-> FALSE, engine |-> 1, tick |-> 0, times |-> <<>>,
     after |-> <<>>]

\* The state of a PopClock(W, H) after construction.
InitFresh ==
    /\ w = W /\ h = H
    /\ fb = {} /\ segment = NoSegments
    /\ last_second_ = -1 /\ last_minute_ = -1
    /\ palette1 = initial_colour
    /\ needs_paint = TRUE
    /\ particles = <<>> /\ have_live_particles = FALSE
    /\ color_ = EmptyGrid(W, H) /\ needs_sim_up_to = H
    /\ last_second = 0 /\ last_hour = -1
    /\ previous_segments = NoSegments
    /\ pc = "idle" /\ wall = Tm(0, 0, 0) /\ ticks = 0
    /\ hist = NoHist
    /\ generator = FreeGenerator /\ process = NoProcess
    /\ menu = NoMenu

\* A PopClock(W, H) between two ticks, its last tick run at sc.shown: the
\* clock shows that time, sc.parts are in flight, sc.grains lie at rest and
\* the wall clock reads sc.wall.
Start(sc) ==
    /\ w = W /\ h = H
    /\ segment = ShownDigits(sc.shown)
    /\ fb = render_digits(ShownDigits(sc.shown))
    /\ last_second_ = sc.shown.tm_sec /\ last_minute_ = sc.shown.tm_min
    /\ palette1 = hue_colour(sc.shown)
    /\ needs_paint = FALSE
    /\ particles = sc.parts
    /\ have_live_particles = (sc.parts # <<>>)
    /\ color_ = GridWith(W, H, sc.grains)
    /\ needs_sim_up_to = H
    /\ last_second = sc.shown.tm_sec /\ last_hour = sc.shown.tm_hour
    /\ previous_segments = ShownDigits(sc.shown)
    /\ pc = "idle" /\ wall = sc.wall /\ ticks = 0
    /\ hist = [NoHist EXCEPT !.shown = Shown]
    /\ generator = FreeGenerator /\ process = NoProcess
    /\ menu = NoMenu

\* The top segment of the last digit (segrect(3, 0) of a W x H display).
TopSeg == [x |-> ((((3 * 3) + 1) * W) \div 13) + st,
           y |-> ((2 * H) \div 7) - (st \div 2)]

\* A particle heading diagonally for the top segment of the last digit.
AtSegmentCorner ==
    <<Flying((TopSeg.x * Scale) - 40, (TopSeg.y * Scale) - 40, 50, 50, 99, 7)>>
\* A particle about to reach the floor.
AtFloor == <<Flying(550, (H * Scale) - 30, 5, 40, 50, 7)>>
\* A slow particle coming down on the grain at (5, H - 1).
OnGrain == <<Flying(550, ((H - 1) * Scale) - 10, 0, 15, 60, 7)>>
\* A particle thrown into the top left corner of the display.
AtTopCorner == <<Flying(20, 20, -70, -70, 99, 7)>>
\* A particle falling at its terminal velocity between the first two digits.
AtTerminal == <<Flying(450, 150, 0, 50, 50, 7)>>

Running ==
    { [shown |-> Tm(8, 8, 20), wall |-> Tm(8, 8, 20),
       parts |-> AtSegmentCorner, grains |-> {}],
      [shown |-> Tm(8, 8, 20), wall |-> Tm(8, 8, 20),
       parts |-> AtFloor, grains |-> {}],
      [shown |-> Tm(8, 8, 20), wall |-> Tm(8, 8, 20),
       parts |-> <<>>, grains |-> {<<5, H - 1, 3>>, <<6, H - 1, 4>>}],
      [shown |-> Tm(9, 8, 20), wall |-> Tm(9, 8, 20),
       parts |-> OnGrain, grains |-> {<<5, H - 1, 3>>}],
      [shown |-> Tm(8, 8, 20), wall |-> Tm(8, 8, 20),
       parts |-> AtTopCorner, grains |-> {}],
      [shown |-> Tm(8, 8, 20), wall |-> Tm(8, 8, 20),
       parts |-> AtTerminal, grains |-> {}] }

Init == InitFresh \/ \E sc \in Running : Start(sc)

Next ==
    \/ \E t \in Times : ticks < MaxTicks /\ TickBegin(t)
    \/ ParticleSweep
    \/ GridPass
    \/ Render

Spec == Init /\ [][Next]_vars

\* ------------------------------------------------ claims under Spec
\* The cell of a particle: its x and y converted to int.
CellX(p) == ToInt(p.x)
CellY(p) == ToInt(p.y)

\* C1: after the particle sweep of a tick, no active particle is in a cell
\* that the clock mask reports solid or that holds static mass.
C1_NoOverlapAfterSweep ==
    hist.step = "sweep" =>
        \A i \in DOMAIN particles :
            particles[i].active =>
                /\ ~solid_at(CellX(particles[i]), CellY(particles[i]))
                /\ get(Pool, CellX(particles[i]), CellY(particles[i])) = 0

\* The particle seeded beside the top segment of the last digit is, after
\* a sweep, active inside the cell of that lit segment.
C1_CornerLeak ==
    /\ hist.step = "sweep"
    /\ solid_at(TopSeg.x, TopSeg.y)
    /\ \E i \in DOMAIN particles :
          /\ particles[i].active /\ particles[i].origin = "seed"
          /\ CellX(particles[i]) = TopSeg.x /\ CellY(particles[i]) = TopSeg.y
          /\ ~solid_at(TopSeg.x - 1, TopSeg.y)
          /\ ~solid_at(TopSeg.x, TopSeg.y - 1)

\* C8 (as stated): a cell that is non-empty after a tick and was empty
\* before it received its mass from a grain moved by the fall or repose
\* rule.  A particle of unrecorded origin counts as such a grain.
C8_NewMassFromFallOrRepose ==
    hist.step = "grid" =>
        \A c \in DOMAIN color_ :
            (color_[c] # 0 /\ hist.tick.color_[c] = 0) =>
                \E k \in DOMAIN hist.settles :
                    /\ hist.settles[k].x + (hist.settles[k].y * w) = c
                    /\ hist.settles[k].color = color_[c]
                    /\ hist.settles[k].origin \in {"fall", "repose", "seed"}

\* C8 (amended): a cell that is non-empty after a tick and was empty before
\* it holds the colour of a particle that settled into it during the
\* particle sweep of that tick, whatever spawned the particle.
C8_NewMassSettled ==
    hist.step = "grid" =>
        \A c \in DOMAIN color_ :
            (color_[c] # 0 /\ hist.tick.color_[c] = 0) =>
                \E k \in DOMAIN hist.settles :
                    /\ hist.settles[k].x + (hist.settles[k].y * w) = c
                    /\ hist.settles[k].color = color_[c]

\* A tick has ended with a cell newly filled by a particle of the hourly
\* eruption.
C8_Witness ==
    /\ hist.step = "grid"
    /\ \E c \in DOMAIN color_ :
          /\ color_[c] # 0 /\ hist.tick.color_[c] = 0
          /\ \E k \in DOMAIN hist.settles :
                /\ hist.settles[k].x + (hist.settles[k].y * w) = c
                /\ hist.settles[k].origin = "erupt"

\* C10: between ticks every active particle lies inside the grid.
C10_ActiveInsideGrid ==
    pc = "idle" =>
        \A i \in DOMAIN particles :
            particles[i].active =>
                /\ 0 <= CellX(particles[i]) /\ CellX(particles[i]) < w
                /\ 0 <= CellY(particles[i]) /\ CellY(particles[i]) < h
                /\ particles[i].y < h * Scale

\* A dropout tick has ended in which a particle active at its start went
\* through the floor and was stopped.
C10_Witness ==
    /\ hist.step = "grid" /\ hist.drop
    /\ \E i \in DOMAIN hist.tick.particles :
          /\ hist.tick.particles[i].active
          /\ ~particles[i].active
          /\ particles[i].y >= h * Scale

\* C11: the vertical velocity of every active particle is at most its
\* terminal velocity in absolute value, after a pop with the driver's sign
\* adjustments and after every Particle::simulate step, and the terminal
\* velocity lies in [0.3, 1.0).
C11_VerticalSpeedBounded ==
    \A i \in DOMAIN particles :
        particles[i].active =>
            /\ Abs(particles[i].dy) <= particles[i].tv
            /\ (3 * Scale) \div 10 <= particles[i].tv
            /\ particles[i].tv < Scale

\* A sweep has stepped a particle that was already falling at its terminal
\* velocity: gravity was added and the minimum with tv taken.  Another
\* particle of the pool was popped during the run.
C11_Witness ==
    /\ hist.step = "sweep"
    /\ \E i \in DOMAIN hist.pre.particles :
          /\ hist.pre.particles[i].active /\ particles[i].active
          /\ hist.pre.particles[i].dy = hist.pre.particles[i].tv
          /\ particles[i].y > hist.pre.particles[i].y
          /\ particles[i].dy = particles[i].tv
    /\ \E j \in DOMAIN particles :
          particles[j].active /\ particles[j].origin # "seed"

\* C12: find_free_particle returns an index inside the pool whose slot is
\* inactive and is the slot of no particle that was in the pool before; the
\* older slots are as they were.  The steps that allocate (tick begin, grid
\* pass) leave every older particle as it was and pop every slot they were
\* given.
C12_FreshSlot ==
    /\ \E S1 \in {find_free_particle(Pool)} :
          /\ Last(S1) \in DOMAIN S1.particles
          /\ ~S1.particles[Last(S1)].active
          /\ Last(S1) \notin DOMAIN particles
          /\ \A j \in DOMAIN particles : S1.particles[j] = particles[j]
    /\ hist.step \in {"begin", "grid"} =>
          /\ Len(particles) >= Len(hist.pre.particles)
          /\ \A j \in DOMAIN hist.pre.particles :
                particles[j] = hist.pre.particles[j]
          /\ \A i \in (Len(hist.pre.particles) + 1)..Len(particles) :
                particles[i].active

\* A grid pass has allocated a slot while the pool held an active particle
\* and an inactive slot.
C12_Witness ==
    /\ hist.step = "grid"
    /\ Len(particles) > Len(hist.pre.particles)
    /\ \E j \in DOMAIN hist.pre.particles : hist.pre.particles[j].active
    /\ \E j \in DOMAIN hist.pre.particles : ~hist.pre.particles[j].active

\* Something render draws is not as the last render drew it (hist.shown;
\* nothing was drawn yet when its palette is -1).
ChangedSinceRender ==
    \/ hist.shown.palette1 # palette1
    \/ hist.shown.fb # fb
    \/ hist.shown.particles # particles
    \/ hist.shown.color_ # color_

\* C17: between ticks, if a grid cell, a particle or the clock's shape or
\* colour is not as the last render drew it, want_render() returns true,
\* however many ticks have run since that render.
C17_PendingChangeWantsRender ==
    (pc = "idle" /\ ChangedSinceRender) => needs_paint

\* Two ticks or more have run since the last render, which drew the seeded
\* particle where it started; the particle has moved and the flag is set.
C17_Witness ==
    /\ pc = "idle" /\ hist.step = "grid" /\ ticks >= 2
    /\ hist.shown.palette1 # -1
    /\ Len(hist.shown.particles) = 1 /\ Len(particles) = 1
    /\ hist.shown.particles[1].origin = "seed"
    /\ hist.shown.particles[1].y # particles[1].y
    /\ needs_paint

\* The cells Particle::simulate may ask its obstacle test about when it
\* steps p: the target, the two single-axis targets and the cell below the
\* place p ends in.
Asked(p) ==
    { <<ToInt(p.x + p.dx), ToInt(p.y + p.dy)>>,
      <<ToInt(p.x + p.dx), ToInt(p.y)>>,
      <<ToInt(p.x), ToInt(p.y + p.dy)>>,
      <<ToInt(p.x), ToInt(p.y + Scale)>>,
      <<ToInt(p.x + p.dx), ToInt(p.y + Scale)>>,
      <<ToInt(p.x), ToInt(p.y + p.dy + Scale)>>,
      <<ToInt(p.x + p.dx), ToInt(p.y + p.dy + Scale)>> }

FirstStepped ==
    { [was |-> particles[i],
       r |-> Particle_simulate(particles[i], Pool, Dropout(wall))] :
        i \in { j \in DOMAIN particles :
                   /\ particles[j].active
                   /\ \A k \in 1..(j - 1) : ~particles[k].active } }

\* A cell a particle cannot enter: solid obstacle, static mass or outside
\* the grid.
Taken(x, y) == ~InGrid(x, y) \/ get(Pool, x, y) # 0 \/ solid_at(x, y)

\* The same, with the rows below the floor open during dropout.
Closed(x, y) == Taken(x, y) /\ ~(Dropout(wall) /\ y >= h)

\* After the move the particle is slow on both axes.
Slow(o) ==
    /\ Abs(o.r.p.dx) <= k_movement_epsilon
    /\ Abs(o.r.dy) <= k_movement_epsilon

\* The particle was blocked on both axes: its target and both
\* single-axis targets are closed.
Jammed(o) ==
    /\ Closed(ToInt(o.was.x + o.was.dx), ToInt(o.was.y + o.was.dy))
    /\ Closed(ToInt(o.was.x + o.was.dx), ToInt(o.was.y))
    /\ Closed(ToInt(o.was.x), ToInt(o.was.y + o.was.dy))

\* C20 as stated: Particle::simulate returns false exactly when, after the
\* move, the particle is slow on both axes and the cell directly below it
\* is occupied.
C20_SettlesIffSlowAndSupported ==
    (pc = "sweep" /\ have_live_particles) =>
        \A o \in FirstStepped :
            (~o.r.alive) <=>
                (Slow(o) /\ Taken(ToInt(o.r.p.x), ToInt(o.r.p.y + Scale)))

\* C20 amended: Particle::simulate returns false exactly when the particle
\* was blocked on both axes, or when after the move it is slow on both
\* axes and the cell directly below it is closed (below the floor counts
\* as open during dropout).
C20_SettlesIffJammedOrSlowAndSupported ==
    (pc = "sweep" /\ have_live_particles) =>
        \A o \in FirstStepped :
            (~o.r.alive) <=>
                \/ Jammed(o)
                \/ Slow(o) /\ Closed(ToInt(o.r.p.x), ToInt(o.r.p.y + Scale))

\* The sweep is about to settle a particle that is jammed and still fast.
C20_Witness ==
    /\ pc = "sweep" /\ have_live_particles
    /\ \E o \in FirstStepped : ~o.r.alive /\ Jammed(o) /\ ~Slow(o)

\* ------------------------------------------------------ SpecSteady
\* The driver with the wall clock standing still: every tick sees the time
\* the last one saw.

Steady ==
    { [shown |-> Tm(8, 8, 20), wall |-> Tm(8, 8, 20),
       parts |-> AtTopCorner, grains |-> {}],
      [shown |-> Tm(8, 8, 20), wall |-> Tm(8, 8, 20),
       parts |-> OnGrain, grains |-> {<<5, H - 1, 3>>}],
      [shown |-> Tm(8, 8, 20), wall |-> Tm(8, 8, 20),
       parts |-> AtSegmentCorner, grains |-> {}] }

InitSteady == \E sc \in Steady : Start(sc)

SteadyTick == TickBegin(wall)

NextSteady == SteadyTick \/ ParticleSweep \/ GridPass \/ Render

SpecSteady == InitSteady /\ [][NextSteady]_vars

ParticleSeeds ==
    { Flying(x, y, dx, dy, tv, 7) :
        x \in {150, 650, 1650}, y \in {150, 450, 850},
        dx \in {-60, -11, 0, 45}, dy \in {-60, 0, 30}, tv \in {60, 99} }

InitParticle ==
    /\ \E p \in ParticleSeeds :
          Start([shown |-> Tm(8, 8, 20), wall |-> Tm(8, 8, 20),
                 parts |-> <<p>>, grains |-> {<<1, H - 1, 3>>}])

\* The particle loop body of PopClock::simulate without the settle: the
\* particle is simulated and stopped when simulate returns false.
ParticleStep ==
    /\ \E i \in DOMAIN particles :
          /\ particles[i].active
          /\ \E r \in {Particle_simulate(particles[i], Pool, FALSE)} :
                particles' = [particles EXCEPT
                                 ![i] = IF r.alive THEN r.p ELSE stop(r.p)]
    /\ hist' = [hist EXCEPT !.step = "particle",
                            !.tick = IF hist.step = "init" THEN Pool ELSE @]
    /\ ticks' = IF ticks < MaxTicks THEN ticks + 1 ELSE ticks
    /\ UNCHANGED <<menu, w, h, fb, segment, last_second_, last_minute_, palette1,
                   needs_paint, have_live_particles, color_, needs_sim_up_to,
                   last_second, last_hour, previous_segments, pc, wall,
                   generator, process>>

SpecParticle ==
    InitParticle /\ [][ParticleStep]_vars /\ WF_vars(ParticleStep)

\* C9: in a fixed display without dropout every particle becomes inactive
\* after finitely many steps.
C9_EveryParticleSettles ==
    <>(\A i \in DOMAIN particles : ~particles[i].active)

\* A particle has come to rest in another row than it started in.
C9_Witness ==
    /\ hist.step = "particle"
    /\ \E i \in DOMAIN particles :
          /\ ~particles[i].active
          /\ CellY(particles[i]) # CellY(hist.tick.particles[i])

\* -------------------------------------------------------- SpecGrid
\* StaticParticles alone, driven through its public methods on a small
\* grid.  hist.pre is the state before the last call, hist.pre_fb the set
\* of cells its obstacles argument reports solid.
Colours == {1, 2}
Masks ==
    { {}, {<<1, 1>>}, {<<0, 0>>}, { <<x, GridH - 1>> : x \in 0..(GridW - 1) } }

\* A StaticParticles(GridW, GridH) as constructed, or with its bottom row
\* filled by earlier set calls and a simulate call after them.
InitGrid ==
    /\ w = GridW /\ h = GridH
    /\ fb = {} /\ segment = NoSegments
    /\ last_second_ = -1 /\ last_minute_ = -1
    /\ palette1 = initial_colour
    /\ needs_paint = TRUE
    /\ particles = <<>> /\ have_live_particles = FALSE
    /\ color_ \in { EmptyGrid(GridW, GridH),
                     GridWith(GridW, GridH,
                              { <<x, GridH - 1, 1>> : x \in 0..(GridW - 1) }) }
    /\ needs_sim_up_to = h
    /\ last_second = 0 /\ last_hour = -1
    /\ previous_segments = NoSegments
    /\ pc = "idle" /\ wall = Tm(0, 0, 0) /\ ticks = 0
    /\ hist = NoHist
    /\ generator = FreeGenerator /\ process = NoProcess
    /\ menu = NoMenu

GridFrame ==
    /\ ticks < MaxCalls
    /\ ticks' = ticks + 1
    /\ UNCHANGED <<menu, w, h, segment, last_second_, last_minute_, palette1,
                   needs_paint, last_second, last_hour, previous_segments,
                   pc, wall, generator, process>>

\* The state after a call that leaves S; pre is what is remembered of the
\* state before it.
GridCall(S, step, pre, m, drop, did, visits) ==
    /\ particles' = S.particles
    /\ have_live_particles' = S.have_live_particles
    /\ color_' = S.color_
    /\ needs_sim_up_to' = S.needs_sim_up_to
    /\ fb' = m
    /\ hist' = [NoHist EXCEPT !.step = step, !.pre = pre, !.pre_fb = m,
                              !.drop = drop, !.did = did, !.visits = visits]

\* static_particles.set(x, y, c).  The history keeps the cursor before the
\* call and, as its one visit, the cell written.
GridSet ==
    /\ GridFrame
    /\ \E x \in 0..(w - 1), y \in 0..(h - 1), c \in Colours :
          GridCall(set(Pool, x, y, c), "set",
                   [NoHist.pre EXCEPT !.needs_sim_up_to = needs_sim_up_to],
                   {}, FALSE, FALSE, <<[x |-> x, y |-> y, rule |-> "set"]>>)

\* static_particles.simulate(*this, drop_bottom, obstacles)
GridSimulate ==
    /\ GridFrame
    /\ \E drop_bottom \in BOOLEAN, m \in Masks :
          LET n == Len(simulate(Pool, drop_bottom, m,
                                NoDraws(Len(particles))).S.particles)
                   - Len(particles)
          IN  /\ Len(particles) + n <= MaxPool
              /\ \E ds \in [1..n -> Draws] :
                   \E r \in {simulate(Pool, drop_bottom, m,
                                      [base |-> Len(particles),
                                       draws |-> ds])} :
                      GridCall(r.S, "simulate", Pool, m, drop_bottom, r.did,
                               r.visits)

\* static_particles.force_full_simulate_next(up_to)
GridForceFull ==
    /\ GridFrame
    /\ \E up_to \in 0..h :
          GridCall(force_full_simulate_next(Pool, up_to), "force",
                   NoHist.pre, {}, FALSE, FALSE, <<>>)

\* static_particles.pop_all(*this)
GridPopAll ==
    /\ GridFrame
    /\ LET n == Len(pop_all(Pool, NoDraws(Len(particles))).particles)
                - Len(particles)
       IN  /\ Len(particles) + n <= MaxPool
           /\ \E ds \in [1..n -> Draws] :
                GridCall(pop_all(Pool, [base |-> Len(particles),
                                        draws |-> ds]),
                         "pop_all", Pool, {}, FALSE, FALSE, <<>>)

\* The coordinates next to the grid on each side and corner.
Outside == { c \in ((-1)..w) \X ((-1)..h) : ~InGrid(c[1], c[2]) }

\* static_particles.set(x, y, c) with (x, y) outside the grid.
GridSetOutside ==
    /\ GridFrame
    /\ \E o \in Outside, c \in Colours :
          GridCall(set(Pool, o[1], o[2], c), "set_outside", Pool, {}, FALSE,
                   FALSE, <<>>)

NextGrid ==
    GridSet \/ GridSimulate \/ GridForceFull \/ GridPopAll \/ GridSetOutside

SpecGrid == InitGrid /\ [][NextGrid]_vars

\* ---------------------------------------------- claims under SpecGrid
\* The occupied cells (grid indices) of the state before the last call.
Occupied == { c \in DOMAIN hist.pre.color_ : hist.pre.color_[c] # 0 }

\* The pool slots the last call appended.
NewSlots == (Len(hist.pre.particles) + 1)..Len(particles)

\* C2: pop_all on a grid with N occupied cells appends exactly N particles,
\* all active, one per occupied cell at that cell's coordinates and with its
\* colour, leaves the older particles alone and leaves every cell empty.
C2_PopAll ==
    hist.step = "pop_all" =>
        /\ Len(particles) = Len(hist.pre.particles) + Cardinality(Occupied)
        /\ \A i \in DOMAIN hist.pre.particles :
              particles[i] = hist.pre.particles[i]
        /\ \A i \in NewSlots : particles[i].active
        /\ \A c \in Occupied :
              Cardinality({ i \in NewSlots :
                              /\ particles[i].x = (c % w) * Scale
                              /\ particles[i].y = (c \div w) * Scale }) = 1
        /\ \A c \in Occupied : \A i \in NewSlots :
              (particles[i].x = (c % w) * Scale
               /\ particles[i].y = (c \div w) * Scale)
                  => particles[i].color = hist.pre.color_[c]
        /\ \A c \in DOMAIN color_ : color_[c] = 0

\* pop_all has run on a grid with two grains of different colours.
C2_Witness ==
    /\ hist.step = "pop_all"
    /\ \E c, d \in Occupied : hist.pre.color_[c] # hist.pre.color_[d]

StableBefore ==
    \A c \in Occupied :
        \A d \in {-1, 0, 1} :
            ((c % w) + d >= 0 /\ (c % w) + d < w /\ (c \div w) + 1 < h)
                => hist.pre.color_[c + w + d] # 0

\* The last call changed no cell, appended no particle and returned false.
NothingChanged ==
    /\ color_ = hist.pre.color_
    /\ particles = hist.pre.particles
    /\ ~hist.did

\* C4 (as stated): simulate on a stable configuration changes nothing.
C4_StableUnchanged ==
    (hist.step = "simulate" /\ StableBefore) => NothingChanged

\* C4 (amended): simulate without drop_bottom on a stable configuration none
\* of whose occupied cells is solid changes nothing.
C4_StableUncrushedUnchanged ==
    (/\ hist.step = "simulate" /\ StableBefore
     /\ ~hist.drop
     /\ \A c \in Occupied : <<c % w, c \div w>> \notin hist.pre_fb)
        => NothingChanged

\* simulate has examined a grain above the bottom row of a stable
\* configuration and left it.
C4_Witness ==
    /\ hist.step = "simulate" /\ StableBefore /\ ~hist.drop
    /\ \A c \in Occupied : <<c % w, c \div w>> \notin hist.pre_fb
    /\ \E k \in DOMAIN hist.visits : hist.visits[k].rule = "none"
    /\ NothingChanged

\* The last call was simulate, without drop_bottom and without obstacle, on
\* the 3 x 2 grid holding a single grain, at (1, 0).
SingleGrainStep ==
    /\ hist.step = "simulate" /\ w = 3 /\ h = 2
    /\ ~hist.drop /\ hist.pre_fb = {}
    /\ Occupied = {1}

\* C5 (as stated): after the step (1, 0) is empty and (1, 1) holds the
\* grain's colour.
C5_GrainMovedDown ==
    SingleGrainStep =>
        color_[1] = 0 /\ color_[1 + w] = hist.pre.color_[1]

\* C5 (amended): if the dirty-row cursor stood at row 0 (where set leaves
\* it after placing the grain), after the step the whole grid is empty and
\* the grain is a new active particle at (1, 0) with the grain's colour, not
\* moving upward and with damped horizontal speed; simulate returned true.
C5_GrainBecomesParticle ==
    (SingleGrainStep /\ hist.pre.needs_sim_up_to <= 0) =>
        /\ \A c \in DOMAIN color_ : color_[c] = 0
        /\ Len(particles) = Len(hist.pre.particles) + 1
        /\ particles[Len(particles)].active
        /\ particles[Len(particles)].x = 1 * Scale
        /\ particles[Len(particles)].y = 0
        /\ particles[Len(particles)].color = hist.pre.color_[1]
        /\ particles[Len(particles)].dy >= 0
        /\ Abs(particles[Len(particles)].dx) * 4 <= Scale
        /\ hist.did

\* The step has run and (1, 1) is empty after it.
C5_Witness ==
    /\ SingleGrainStep /\ hist.pre.needs_sim_up_to <= 0
    /\ color_[1 + w] = 0 /\ particles[Len(particles)].dx # 0

\* The occupied cells of the state before the call that lie in the rows the
\* call examines and are not solid.
ExaminedUncrushed ==
    { c \in Occupied :
        /\ (c \div w) >= hist.pre.needs_sim_up_to
        /\ (c \div w) <= h - (IF hist.drop THEN 1 ELSE 2)
        /\ <<c % w, c \div w>> \notin hist.pre_fb }

\* The particles the last call appended at the place of cell c.
SpawnedAt(c) ==
    { i \in NewSlots :
        /\ particles[i].x = (c % w) * Scale
        /\ particles[i].y = (c \div w) * Scale }

\* The cell below c is free when c is examined: the rows below are
\* finished by then and the pass writes to none of them afterwards, so it
\* is the cell as the call leaves it.  Below the bottom row it is
\* drop_bottom that decides.
FreeBelow(c) ==
    IF (c \div w) + 1 >= h THEN hist.drop
    ELSE color_[c + w] = 0 /\ <<c % w, (c \div w) + 1>> \notin hist.pre_fb

Supported == { c \in ExaminedUncrushed : ~FreeBelow(c) }

\* The down-left (d = -1) or down-right (d = 1) neighbour of c is open when
\* c is examined: inside the grid, empty and not solid.  A side wall is
\* blocked.
OpenBeside(c, d) ==
    /\ (c % w) + d >= 0 /\ (c % w) + d < w
    /\ color_[c + w + d] = 0
    /\ <<(c % w) + d, (c \div w) + 1>> \notin hist.pre_fb

\* C22: for an examined, non-solid cell supported from below: if only
\* down-left is open the cell is cleared and one particle with dx <= 0
\* stands for it; if only down-right is open, one with dx >= 0; if both
\* are open, one particle of either sign; if neither is open the cell is
\* as before and no particle stands for it.
C22_ReposeRule ==
    hist.step = "simulate" =>
        \A c \in Supported :
            IF OpenBeside(c, -1) \/ OpenBeside(c, 1)
            THEN /\ color_[c] = 0
                 /\ Cardinality(SpawnedAt(c)) = 1
                 /\ \A i \in SpawnedAt(c) :
                       /\ particles[i].active
                       /\ particles[i].color = hist.pre.color_[c]
                       /\ ~OpenBeside(c, 1) => particles[i].dx <= 0
                       /\ ~OpenBeside(c, -1) => particles[i].dx >= 0
            ELSE /\ color_[c] = hist.pre.color_[c]
                 /\ SpawnedAt(c) = {}

\* A supported grain at the right wall has spilled to the left.
C22_Witness ==
    /\ hist.step = "simulate"
    /\ \E c \in Supported :
          /\ c % w = w - 1 /\ OpenBeside(c, -1)
          /\ \E i \in SpawnedAt(c) : particles[i].dx < 0

\* The visits of the last call to the cell with index c.
VisitsTo(c) ==
    { k \in DOMAIN hist.visits :
        hist.visits[k].x + (hist.visits[k].y * w) = c }

\* C23: in one pass every occupied cell is examined at most once and one
\* rule at most is applied to it, crush before fall before repose: a solid
\* cell is crushed, cleared, and no particle stands for it; another cell
\* falls when the cell below is free and is otherwise left to the repose
\* check; no cell has more than one new particle, and the new particles
\* are as many as the cells that fell or spilled.
C23_OneRulePerCell ==
    hist.step = "simulate" =>
        /\ \A c \in DOMAIN color_ :
              /\ Cardinality(VisitsTo(c)) <= 1
              /\ Cardinality(SpawnedAt(c)) <= 1
              /\ VisitsTo(c) # {} => hist.pre.color_[c] # 0
        /\ \A k \in DOMAIN hist.visits :
              LET v == hist.visits[k]
                  c == v.x + (v.y * w)
              IN  /\ (v.rule = "crush") <=> (<<v.x, v.y>> \in hist.pre_fb)
                  /\ v.rule = "crush" => (color_[c] = 0 /\ SpawnedAt(c) = {})
                  /\ v.rule = "fall" => FreeBelow(c)
                  /\ v.rule \in {"repose", "none"} => ~FreeBelow(c)
                  /\ v.rule \in {"fall", "repose"} =>
                        Cardinality(SpawnedAt(c)) = 1
                  /\ v.rule = "none" => SpawnedAt(c) = {}
        /\ Cardinality(NewSlots)
              = Cardinality({ k \in DOMAIN hist.visits :
                                hist.visits[k].rule \in {"fall", "repose"} })

\* One pass has crushed a grain and let another fall.
C23_Witness ==
    /\ hist.step = "simulate"
    /\ \E k \in DOMAIN hist.visits : hist.visits[k].rule = "crush"
    /\ \E k \in DOMAIN hist.visits : hist.visits[k].rule = "fall"

\* The occupied cells whose row the pass processes and whose cell directly
\* below was occupied before the pass and is empty after it.
Undermined ==
    { c \in Occupied :
        /\ (c \div w) >= hist.pre.needs_sim_up_to
        /\ (c + w) \in Occupied
        /\ color_[c + w] = 0 }

\* The pass has turned cell c into a particle.
Converted(c) == color_[c] = 0 /\ Cardinality(SpawnedAt(c)) = 1

\* C24 as stated: if (x, y + 1) is vacated in a pass and row y is
\* processed, the occupied cell (x, y) is converted in the same pass.
C24_UnderminedConverted ==
    hist.step = "simulate" => \A c \in Undermined : Converted(c)

\* C24 amended: the same for cells that are not solid and whose cell
\* below is not solid (it fell or spilled, it was not crushed).
C24_UnderminedFreeConverted ==
    hist.step = "simulate" =>
        \A c \in Undermined :
            (/\ <<c % w, c \div w>> \notin hist.pre_fb
             /\ <<c % w, (c \div w) + 1>> \notin hist.pre_fb)
                => Converted(c)

\* A column occupied from top to bottom has been converted in one pass,
\* and no obstacle stands in it.
C24_Witness ==
    /\ hist.step = "simulate"
    /\ \E x \in 0..(w - 1) :
          \A y \in 0..(h - 1) :
              /\ (x + (y * w)) \in Occupied
              /\ <<x, y>> \notin hist.pre_fb
              /\ Converted(x + (y * w))

\* The cell the last call, a set, wrote.
WrittenX == hist.visits[1].x
WrittenY == hist.visits[1].y

\* A pass called now with drop_bottom = d examines the cell (x, y).
SeenByPass(d, x, y) ==
    \E k \in DOMAIN simulate(Pool, d, {}, NoDraws(Len(particles))).visits :
        LET v == simulate(Pool, d, {}, NoDraws(Len(particles))).visits[k]
        IN  v.x = x /\ v.y = y

\* After set(x, y, c) inside the grid the cursor is at most max(0, y - 1)
\* and not above where it was.
CursorLowered ==
    /\ needs_sim_up_to <= Max2(0, WrittenY - 1)
    /\ needs_sim_up_to <= hist.pre.needs_sim_up_to

\* C25 as stated: after an in-bounds set the cursor is lowered, and a pass
\* that follows examines row y and the row above it (seen on the cell
\* written and the cell above it).
C25_SetCoversRowAndRowAbove ==
    hist.step = "set" =>
        /\ CursorLowered
        /\ \A d \in BOOLEAN :
              /\ color_[WrittenX + (WrittenY * w)] # 0 =>
                    SeenByPass(d, WrittenX, WrittenY)
              /\ (WrittenY >= 1
                  /\ color_[WrittenX + ((WrittenY - 1) * w)] # 0) =>
                    SeenByPass(d, WrittenX, WrittenY - 1)

\* C25 amended: row y itself is examined unless it is the bottom row and
\* the pass runs without drop_bottom.
C25_SetCoversRowAboveAndRowInRange ==
    hist.step = "set" =>
        /\ CursorLowered
        /\ \A d \in BOOLEAN :
              /\ (color_[WrittenX + (WrittenY * w)] # 0
                  /\ (WrittenY < h - 1 \/ d)) =>
                    SeenByPass(d, WrittenX, WrittenY)
              /\ (WrittenY >= 1
                  /\ color_[WrittenX + ((WrittenY - 1) * w)] # 0) =>
                    SeenByPass(d, WrittenX, WrittenY - 1)

\* A grain was set below an occupied cell while the cursor stood at h: the
\* cursor has come down to the row above.
C25_Witness ==
    /\ hist.step = "set" /\ WrittenY >= 1
    /\ color_[WrittenX + (WrittenY * w)] # 0
    /\ color_[WrittenX + ((WrittenY - 1) * w)] # 0
    /\ hist.pre.needs_sim_up_to = h
    /\ needs_sim_up_to = WrittenY - 1

\* C16: for coordinates outside the grid get returns 0, and set changes no
\* cell and leaves the dirty-row cursor (and the pool) as it was.
C16_OutsideIsNoOp ==
    /\ \A o \in Outside : get(Pool, o[1], o[2]) = 0
    /\ hist.step = "set_outside" =>
          /\ color_ = hist.pre.color_
          /\ needs_sim_up_to = hist.pre.needs_sim_up_to
          /\ particles = hist.pre.particles
          /\ have_live_particles = hist.pre.have_live_particles

\* set was called outside a grid that holds a grain and whose cursor
\* stands below row 0.
C16_Witness ==
    /\ hist.step = "set_outside"
    /\ \E c \in DOMAIN color_ : color_[c] # 0
    /\ needs_sim_up_to > 0

\* C6: without drop_bottom simulate changes no cell of the bottom row and
\* appends no particle at a bottom-row position.
C6_BottomRowUntouched ==
    (hist.step = "simulate" /\ ~hist.drop) =>
        /\ \A c \in DOMAIN color_ :
              (c \div w) = h - 1 => color_[c] = hist.pre.color_[c]
        /\ \A i \in NewSlots : particles[i].y # (h - 1) * Scale

\* simulate without drop_bottom has run on the 3 x 2 grid whose bottom row
\* is full, and the grain at (1, 1) is still there.
C6_Witness ==
    /\ hist.step = "simulate" /\ ~hist.drop /\ w = 3 /\ h = 2
    /\ \A c \in {3, 4, 5} : hist.pre.color_[c] # 0
    /\ color_[4] = hist.pre.color_[4]

\* -------------------------------------------------------- SpecPool
\* The particle pool alone: particles are popped into fresh slots, stopped,
\* and the pool is compacted.
PoolFrame ==
    UNCHANGED <<menu, w, h, fb, segment, last_second_, last_minute_, palette1,
                needs_paint, color_, needs_sim_up_to, last_second, last_hour,
                previous_segments, pc, wall, ticks, generator, process>>

\* i = find_free_particle(); particles[i].pop(*this, x, y, c)
PoolPop ==
    /\ Len(particles) < MaxPool
    /\ \E x \in {0, 1}, d \in Draws :
          \E S1 \in {find_free_particle(Pool)} :
              /\ particles' = [S1.particles EXCEPT
                                  ![Last(S1)] = Tagged(pop(x, 0, 1, d),
                                                       "pool", -1, 0)]
              /\ have_live_particles' = S1.have_live_particles
    /\ hist' = [NoHist EXCEPT !.step = "pop"]
    /\ PoolFrame

\* particles[i].stop()
PoolStop ==
    /\ \E i \in DOMAIN particles :
          /\ particles[i].active
          /\ particles' = [particles EXCEPT ![i] = stop(@)]
    /\ hist' = [NoHist EXCEPT !.step = "stop"]
    /\ UNCHANGED have_live_particles
    /\ PoolFrame

\* defragment_particles()
PoolDefragment ==
    /\ \E S1 \in {defragment_particles(Pool)} :
          /\ particles' = S1.particles
          /\ have_live_particles' = S1.have_live_particles
    /\ hist' = [NoHist EXCEPT !.step = "defragment", !.pre = Pool,
                              !.compacted = TRUE]
    /\ PoolFrame

NextPool == PoolPop \/ PoolStop \/ PoolDefragment

SpecPool == InitFresh /\ [][NextPool]_vars

\* ---------------------------------------------- claims under SpecPool
\* The slots of the pool before the last call that held an active particle.
ActiveBefore == { j \in DOMAIN hist.pre.particles : hist.pre.particles[j].active }

\* The number of active particles before the call up to slot j.
RankBefore(j) == Cardinality({ k \in ActiveBefore : k <= j })

\* C13: after defragment_particles the pool holds exactly the particles
\* that were active before, each unchanged and in the same relative order,
\* and no slot is inactive.
C13_DefragmentKeepsActive ==
    hist.step = "defragment" =>
        /\ Len(particles) = Cardinality(ActiveBefore)
        /\ \A j \in ActiveBefore :
              particles[RankBefore(j)] = hist.pre.particles[j]
        /\ \A i \in DOMAIN particles : particles[i].active

\* The pool was compacted while an inactive slot lay between two different
\* active particles.
C13_Witness ==
    /\ hist.step = "defragment"
    /\ Len(hist.pre.particles) = 3
    /\ ActiveBefore = {1, 3}
    /\ hist.pre.particles[1] # hist.pre.particles[3]
    /\ Len(particles) = 2

\* ----------------------------------------------------- SpecCompact
\* The driver with the compaction threshold scaled down to the pools of
\* the model.  The pool of a running PopClock holds the slots of stopped
\* particles until a compaction removes them.
Stopped == stop(Flying(250, 850, 0, 0, 30, 7))

Compacting ==
    { [shown |-> Tm(8, 8, 20), wall |-> Tm(8, 8, 20),
       parts |-> <<Stopped, Stopped>> \o OnGrain,
       grains |-> {<<5, H - 1, 3>>}],
      [shown |-> Tm(8, 8, 20), wall |-> Tm(8, 8, 20),
       parts |-> <<Stopped>> \o AtTerminal \o <<Stopped>>,
       grains |-> {<<5, H - 1, 3>>, <<6, H - 1, 4>>}],
      [shown |-> Tm(8, 8, 20), wall |-> Tm(8, 8, 20),
       parts |-> AtFloor, grains |-> {}] }

InitCompact == \E sc \in Compacting : Start(sc)

\* A sweep whose threshold no pool of the model exceeds.
CompactingSweepNever == Sweep(MaxPool)

CompactingSweep == Sweep(SmallThreshold)

NextCompact ==
    \/ \E t \in Times : ticks < MaxTicks /\ TickBegin(t)
    \/ CompactingSweep
    \/ GridPass
    \/ Render

SpecCompact == InitCompact /\ [][NextCompact]_vars

\* The slots the last step appended to the pool.
Allocated == (Len(hist.pre.particles) + 1)..Len(particles)

\* C14: the steps that take indices from find_free_particle (tick begin
\* with pop_all and the segment pops, grid pass) never compact: the older
\* slots stay where they were, and every index taken was used on its own
\* slot, which holds the particle popped at its cell with the caller's
\* adjustment of dx or dy.  The particle sweep takes no index, and the
\* compaction, when it runs, runs after the whole sweep and before the grid
\* pass.
C14_IndicesUsedBeforeCompaction ==
    /\ hist.step \in {"begin", "grid"} =>
          /\ Len(particles) >= Len(hist.pre.particles)
          /\ \A j \in DOMAIN hist.pre.particles :
                particles[j] = hist.pre.particles[j]
          /\ \A i \in Allocated :
                /\ particles[i].active
                /\ particles[i].src >= 0 =>
                      /\ particles[i].x = (particles[i].src % w) * Scale
                      /\ particles[i].y = (particles[i].src \div w) * Scale
                      /\ particles[i].color = particles[i].mass
                /\ particles[i].origin \in {"fall", "repose"} =>
                      particles[i].dy >= 0
                /\ particles[i].origin = "fall" =>
                      4 * Abs(particles[i].dx) <= particles[i].tv
                /\ particles[i].origin = "segment" => particles[i].dy <= 0
    /\ hist.step = "begin" => ~hist.compacted
    /\ hist.step = "sweep" =>
          /\ Len(particles) <= Len(hist.pre.particles)
          /\ ~hist.compacted => Len(particles) = Len(hist.pre.particles)
          /\ hist.compacted => \A i \in DOMAIN particles : particles[i].active
          /\ \A k \in DOMAIN hist.settles :
                /\ hist.settles[k].slot \in DOMAIN hist.pre.particles
                /\ hist.pre.particles[hist.settles[k].slot].active

\* The sweep of a tick has compacted the pool and the grid pass of the
\* same tick has then taken a new index and popped a grain into its slot.
C14_Witness ==
    /\ hist.step = "grid" /\ hist.compacted
    /\ Allocated # {}
    /\ \E i \in Allocated : particles[i].origin \in {"fall", "repose"}

\* The pool size when the sweep decides about compaction: the sweep
\* itself allocates nothing.
SizeAtDecision == Len(hist.pre.particles)

\* The particles alive at that point, and the particles the sweep counted
\* (those active when it reached them).
LiveAtDecision == Cardinality({ i \in DOMAIN particles : particles[i].active })
CountedBySweep ==
    Cardinality({ i \in DOMAIN hist.pre.particles :
                    hist.pre.particles[i].active })

\* The sweep has removed slots from the pool.
PoolShrunk == Len(particles) < Len(hist.pre.particles)

\* C26 as stated: the pool is compacted exactly when its size exceeds the
\* threshold and the live particles times k_defragment_factor are fewer
\* than its size.
C26_CompactsIffSparse ==
    hist.step = "sweep" =>
        /\ PoolShrunk <=>
              (/\ SizeAtDecision > SmallThreshold
               /\ LiveAtDecision * k_defragment_factor < SizeAtDecision)
        /\ PoolShrunk => SizeAtDecision > SmallThreshold

\* C26 amended: the count compared is that of the particles the sweep
\* stepped, those that settled or dropped out in it included.
C26_CompactsIffSparseAsCounted ==
    hist.step = "sweep" =>
        /\ PoolShrunk <=>
              (/\ SizeAtDecision > SmallThreshold
               /\ CountedBySweep * k_defragment_factor < SizeAtDecision)
        /\ PoolShrunk <=> hist.compacted
        /\ PoolShrunk => SizeAtDecision > SmallThreshold

\* A sweep has compacted a pool in which a particle is still alive.
C26_Witness ==
    /\ hist.step = "sweep" /\ PoolShrunk
    /\ LiveAtDecision > 0

\* --------------------------------------------------------- SpecTwo
\* Two engines in one process, one after the other.  The first is
\* constructed in a fresh process and run for some ticks; the times its
\* ticks see and its particles and grid after each tick are recorded in
\* process.  Then a second PopClock(W, H) is constructed and run on the
\* same times.  Both generators are default-constructed, so both hand out
\* the same stream.  last_second, last_hour and previous_segments are
\* statics of PopClock::simulate: the process has one copy of each.
Streams ==
    { s \in [1..MaxPool -> Draws] : s[1] # ZeroDraw /\ s[2] = ZeroDraw }

InitTwo ==
    /\ w = W /\ h = H
    /\ fb = {} /\ segment = NoSegments
    /\ last_second_ = -1 /\ last_minute_ = -1
    /\ palette1 = initial_colour
    /\ needs_paint = TRUE
    /\ particles = <<>> /\ have_live_particles = FALSE
    /\ color_ = EmptyGrid(W, H) /\ needs_sim_up_to = H
    /\ last_second = 0 /\ last_hour = -1
    /\ previous_segments = NoSegments
    /\ pc = "idle" /\ wall = Tm(0, 0, 0) /\ ticks = 0
    /\ hist = NoHist
    /\ \E s \in Streams : generator = Seeded(s)
    /\ process = [NoProcess EXCEPT !.record = TRUE]
    /\ menu = NoMenu

\* A tick of the first engine: the wall clock reads any of Times.
FirstBegin ==
    /\ process.engine = 1 /\ ticks < MaxTicks
    /\ \E t \in Times : TickBegin(t)

\* std::make_unique<PopClock>(w, h) once the first engine has run: the
\* members are those of a new engine, the statics are what they are.
Construct ==
    /\ pc = "idle" /\ process.engine = 1 /\ process.tick >= 1
    /\ fb' = {} /\ segment' = NoSegments
    /\ last_second_' = -1 /\ last_minute_' = -1
    /\ palette1' = initial_colour
    /\ needs_paint' = TRUE
    /\ particles' = <<>> /\ have_live_particles' = FALSE
    /\ color_' = EmptyGrid(w, h) /\ needs_sim_up_to' = h
    /\ generator' = [generator EXCEPT !.pos = 0]
    /\ process' = [process EXCEPT !.engine = 2, !.tick = 0]
    /\ hist' = [NoHist EXCEPT !.step = "construct"]
    /\ UNCHANGED <<menu, w, h, last_second, last_hour, previous_segments, pc, wall,
                   ticks>>

\* A tick of the second engine: the wall clock reads what it read at the
\* same tick of the first.
ReplayBegin ==
    /\ process.engine = 2 /\ process.tick < Len(process.times)
    /\ TickBegin(process.times[process.tick + 1])

NextTwo ==
    \/ FirstBegin
    \/ Construct
    \/ ReplayBegin
    \/ ParticleSweep
    \/ GridPass

SpecTwo == InitTwo /\ [][NextTwo]_vars

\* What the program holds of a particle.
Visible(p) ==
    [active |-> p.active, x |-> p.x, y |-> p.y, dx |-> p.dx, dy |-> p.dy,
     tv |-> p.tv, color |-> p.color]

\* C15: after every tick of the second engine its grid and its particles
\* equal those the first engine had after the same tick.
C15_SameRunSameState ==
    (process.engine = 2 /\ pc = "idle" /\ process.tick >= 1) =>
        /\ color_ = process.after[process.tick].color_
        /\ Len(particles) = Len(process.after[process.tick].particles)
        /\ \A i \in DOMAIN particles :
              Visible(particles[i])
                  = Visible(process.after[process.tick].particles[i])

\* The second engine has ended its first tick with a particle in its pool
\* (a segment the first engine showed last was popped), where the first
\* engine ended its first tick with an empty pool.
C15_Diverged ==
    /\ process.engine = 2 /\ pc = "idle" /\ process.tick = 1
    /\ process.after[1].particles = <<>>
    /\ \E i \in DOMAIN particles :
          particles[i].active /\ particles[i].origin = "segment"

\* ------------------------------------------------------ SpecCursor
\* The driver on a display where mass has piled up against the right wall
\* as high as the top row.  The pile is at rest while the clock shows
\* 08:07: every grain above the bottom row has mass or a lit segment below
\* it, down-left and down-right of it (or the wall).
PileRows ==
    [y \in 0..(H - 1) |->
        CASE y = 0 -> {18}
          [] y = 1 -> 17..19
          [] y = 2 -> 17..19
          [] y = 3 -> {16, 18, 19}
          [] y = 4 -> 15..19
          [] y = 5 -> {14, 15, 16, 18, 19}
          [] y = 6 -> 13..19
          [] y = 7 -> 12..19
          [] y = 8 -> 11..19
          [] y = 9 -> 10..19]

\* The grains <<x, y, colour>> of the pile.
Pile ==
    { g \in (0..(W - 1)) \X (0..(H - 1)) \X {3} : g[1] \in PileRows[g[2]] }

\* The minute changes at a tick; the hour does not.
CursorTimes == { Tm(8, 7, 20), Tm(8, 4, 21) }

InitCursor ==
    Start([shown |-> Tm(8, 7, 20), wall |-> Tm(8, 7, 20),
           parts |-> <<>>, grains |-> Pile])

NextCursor ==
    \/ \E t \in CursorTimes : ticks < MaxTicks /\ TickBegin(t)
    \/ ParticleSweep
    \/ GridPass
    \/ Render

SpecCursor == InitCursor /\ [][NextCursor]_vars

\* The occupied cells (grid indices) in the rows the coming pass leaves out
\* and a pass from row 0 would examine.
AboveCursor ==
    { c \in DOMAIN color_ :
        /\ color_[c] # 0
        /\ (c \div w) < stop_y(Pool, Dropout(wall))
        /\ (c \div w) <= start_y(Dropout(wall)) }

\* The crush, fall or repose rule applies to cell c.
MatchesRule(c) ==
    simulate_one(Pool, fb, Dropout(wall), c % w, c \div w, color_[c],
                 NoDraws(Len(particles))).rule # "none"

\* C18: at the start of every grid pass no occupied cell in a row above the
\* dirty-row cursor matches the crush, fall or repose rule, so that the pass
\* from the cursor down does what a pass over all rows would do.
C18_NothingUnstableAboveCursor ==
    pc = "grid" => \A c \in AboveCursor : ~MatchesRule(c)

\* A grid pass is about to start in a tick that changed the clock: the
\* cursor stands at row 1 and the grain at (18, 0), whose down-left
\* neighbour was popped by the pass before, is left out.
C18_GrainLeftOut ==
    /\ pc = "grid" /\ hist.changed
    /\ needs_sim_up_to = segrect(0, 0).y - 1
    /\ color_[18] # 0 /\ color_[17 + w] = 0
    /\ 18 \in AboveCursor /\ MatchesRule(18)

\* -------------------------------------------------------- SpecWide
\* The driver on the narrowest display whose horizontal segments are two
\* pixels wide, running at 08:08:20 with one grain at rest on the floor.
WideW == W + 6

InitWide ==
    /\ w = WideW /\ h = H
    /\ segment = ShownDigits(Tm(8, 8, 20))
    /\ fb = render_digits(ShownDigits(Tm(8, 8, 20)))
    /\ last_second_ = 20 /\ last_minute_ = 8
    /\ palette1 = hue_colour(Tm(8, 8, 20))
    /\ needs_paint = FALSE
    /\ particles = <<>> /\ have_live_particles = FALSE
    /\ color_ = GridWith(WideW, H, {<<5, H - 1, 3>>})
    /\ needs_sim_up_to = H
    /\ last_second = 20 /\ last_hour = 8
    /\ previous_segments = ShownDigits(Tm(8, 8, 20))
    /\ pc = "idle" /\ wall = Tm(8, 8, 20) /\ ticks = 0
    /\ hist = [NoHist EXCEPT !.shown = Shown]
    /\ generator = FreeGenerator /\ process = NoProcess
    /\ menu = NoMenu

NextWide ==
    \/ \E t \in Times : ticks < MaxTicks /\ TickBegin(t)
    \/ ParticleSweep
    \/ GridPass
    \/ Render

SpecWide == InitWide /\ [][NextWide]_vars

\* The segments lit at the previous change and unlit now.
Vanished ==
    { ds \in (0..3) \X (0..6) :
        hist.previous[ds[1]][ds[2]] /\ ~segment[ds[1]][ds[2]] }

\* The pixels of the rectangle of segment ds = <<d, s>>.
PixelsOf(ds) ==
    { <<segrect(ds[1], ds[2]).x + xo, segrect(ds[1], ds[2]).y + yo>> :
        xo \in 0..(segrect(ds[1], ds[2]).w - 1),
        yo \in 0..(segrect(ds[1], ds[2]).h - 1) }

\* The particles the beginning of the tick popped from segments.
FromSegments == { i \in Allocated : particles[i].origin = "segment" }

\* C27: on a tick in which the clock shape changed, for every segment lit
\* at the previous change and unlit now there is, for each pixel of its
\* rectangle, exactly one new particle at that pixel, active, with the
\* clock colour and dy <= 0; every particle popped from a segment stands
\* on a pixel of a vanished segment, and a tick without a change pops
\* none.
C27_VanishedSegmentsPop ==
    hist.step = "begin" =>
        IF hist.changed
        THEN /\ \A ds \in Vanished : \A c \in PixelsOf(ds) :
                   /\ Cardinality({ i \in FromSegments :
                                      /\ particles[i].x = c[1] * Scale
                                      /\ particles[i].y = c[2] * Scale }) = 1
                   /\ \A i \in FromSegments :
                         (particles[i].x = c[1] * Scale
                          /\ particles[i].y = c[2] * Scale) =>
                             /\ particles[i].active
                             /\ particles[i].color = palette1
                             /\ particles[i].dy <= 0
             /\ \A i \in FromSegments :
                   \E ds \in Vanished :
                       <<particles[i].x \div Scale, particles[i].y \div Scale>>
                           \in PixelsOf(ds)
             /\ Len(particles) - Len(hist.pre.particles)
                   = Cardinality(UNION { PixelsOf(ds) : ds \in Vanished })
                     + (IF hist.erupted
                        THEN Cardinality({ c \in DOMAIN hist.pre.color_ :
                                             hist.pre.color_[c] # 0 })
                        ELSE 0)
        ELSE FromSegments = {}

\* A segment two pixels wide has vanished and both its pixels have popped,
\* one of them with the draw that goes left and pointed downward.
C27_Witness ==
    /\ hist.step = "begin" /\ hist.changed
    /\ \E ds \in Vanished : Cardinality(PixelsOf(ds)) = 2
    /\ Cardinality(FromSegments) = 2
    /\ \E i \in FromSegments : particles[i].dx < 0 /\ particles[i].dy < 0

\* C28: the particles a tick pops from segments stand on pixels that were
\* lit on this engine's display before the tick and are unlit after it,
\* and the first tick of an engine pops none.
C28_PopsOnlyWhatWasShown ==
    (process.record /\ hist.step = "begin") =>
        /\ \A i \in FromSegments :
              /\ <<particles[i].x \div Scale, particles[i].y \div Scale>>
                     \in hist.pre_fb
              /\ <<particles[i].x \div Scale, particles[i].y \div Scale>>
                     \notin fb
        /\ process.tick = 0 => FromSegments = {}

\* The second engine is in its first tick, its display showed nothing
\* before, and the tick has popped a segment the first engine showed last.
C28_FirstTickExplodes ==
    /\ process.engine = 2 /\ process.tick = 0 /\ hist.step = "begin"
    /\ hist.pre_fb = {}
    /\ hist.previous # NoSegments
    /\ FromSegments # {}

\* ------------------------------------------ the hourly eruption (Spec)
\* The cells of the grid that hold a grain.
Grains(g) == { c \in DOMAIN g : g[c] # 0 }

Appended == (Len(particles) + 1)..Len(particles')

\* The particles of the pool that are active.
Live(ps) == { i \in DOMAIN ps : ps[i].active }

\* C30: the phases of a tick run in the order clock update, eruption,
\* segment pops, particle sweep with settling, compaction, grid pass.
\* The beginning of a tick steps no particle; the eruption comes after the
\* clock update (its reset of the cursor to h stands over the clock's
\* force_full_simulate_next) and before the segment pops (its particles
\* hold the lower slots).  The sweep that follows steps every active
\* particle of the pool, those of the eruption and of the segment pops
\* included; the compaction, when it runs, runs on the swept pool and
\* leaves active particles only.  The grid pass comes last: it neither
\* steps nor removes a particle nor changes the compaction decision, and
\* the particles it appends stand active and unmoved on their cells, to
\* be stepped by the sweep of the next tick.
C30_PhaseOrder ==
    [][ /\ (pc = "idle" /\ pc' = "sweep") =>
              /\ \A j \in DOMAIN particles : particles'[j] = particles[j]
              /\ \A i \in Appended :
                    /\ particles'[i].active
                    /\ particles'[i].origin \in {"erupt", "segment"}
                    /\ particles'[i].origin = "erupt" =>
                          /\ particles'[i].x = (particles'[i].src % w) * Scale
                          /\ particles'[i].y
                                = (particles'[i].src \div w) * Scale
                    /\ particles'[i].origin = "segment" =>
                          /\ particles'[i].color = palette1'
                          /\ particles'[i].dy <= 0
              /\ \A i, k \in Appended :
                    (/\ particles'[i].origin = "erupt"
                     /\ particles'[k].origin = "segment") => i < k
              /\ hist'.erupted => needs_sim_up_to' = h
              /\ (hist'.changed /\ ~hist'.erupted) =>
                    needs_sim_up_to' = segrect(0, 0).y - 1
        /\ (pc = "sweep" /\ pc' = "grid") =>
              /\ ~hist'.compacted =>
                    /\ Len(particles') = Len(particles)
                    /\ \A i \in Live(particles) :
                          particles'[i] # particles[i]
              /\ hist'.compacted =>
                    /\ Live(particles') = DOMAIN particles'
                    /\ Len(particles') < Len(particles)
              /\ \A i \in DOMAIN particles \ Live(particles) :
                    ~hist'.compacted => particles'[i] = particles[i]
        /\ (pc = "grid" /\ pc' = "idle") =>
              /\ \A j \in DOMAIN particles : particles'[j] = particles[j]
              /\ hist'.compacted = hist.compacted
              /\ \A i \in Appended :
                    /\ particles'[i].active
                    /\ particles'[i].origin \in {"fall", "repose"}
                    /\ particles'[i].x = (particles'[i].src % w) * Scale
                    /\ particles'[i].y = (particles'[i].src \div w) * Scale
      ]_vars

\* A tick has erupted a grain and popped a vanished segment, the sweep has
\* moved both particles, and the grid pass has run after it.
C30_Witness ==
    /\ hist.step = "grid" /\ hist.erupted /\ hist.changed
    /\ \E i, k \in DOMAIN particles :
          /\ i > Len(hist.tick.particles) /\ i < k
          /\ particles[i].origin = "erupt"
          /\ particles[k].origin = "segment"
          /\ particles[i].y # (particles[i].src \div w) * Scale
          /\ particles[k].dy > 0

\* --------------------------------------------- settling (Spec)
\* The settles of the last sweep that wrote cell c, in sweep order.
SettlesAt(c) ==
    { k \in DOMAIN hist.settles :
        /\ InGrid(hist.settles[k].x, hist.settles[k].y)
        /\ hist.settles[k].x + (hist.settles[k].y * w) = c }

LastOf(ks) == CHOOSE k \in ks : \A j \in ks : j <= k

\* C31: when Particle::simulate returns false for a particle whose cell is
\* inside the grid, the cell holds the particle's colour right after the
\* write and the particle is inactive; after the sweep every cell no
\* settle wrote is as it was before the sweep, and a written cell holds
\* the colour of the last particle that settled in it.
C31_SettleWritesOneCell ==
    hist.step = "sweep" =>
        /\ \A k \in DOMAIN hist.settles :
              /\ InGrid(hist.settles[k].x, hist.settles[k].y) =>
                    hist.settles[k].is = hist.settles[k].color
              /\ ~hist.compacted =>
                    /\ ~particles[hist.settles[k].slot].active
                    /\ hist.pre.particles[hist.settles[k].slot].active
                    /\ particles[hist.settles[k].slot].color
                          = hist.settles[k].color
                    /\ ToInt(particles[hist.settles[k].slot].x)
                          = hist.settles[k].x
                    /\ ToInt(particles[hist.settles[k].slot].y)
                          = hist.settles[k].y
        /\ \A c \in DOMAIN color_ :
              color_[c] = IF SettlesAt(c) = {} THEN hist.pre.color_[c]
                          ELSE hist.settles[LastOf(SettlesAt(c))].color

\* A particle has settled into an empty cell beside a grain that lay there
\* before the sweep and lies there still.
C31_Witness ==
    /\ hist.step = "sweep"
    /\ \E k \in DOMAIN hist.settles :
          /\ InGrid(hist.settles[k].x, hist.settles[k].y)
          /\ hist.settles[k].was = 0
          /\ hist.settles[k].is # 0
          /\ ~particles[hist.settles[k].slot].active
          /\ \E c \in DOMAIN color_ :
                /\ c # hist.settles[k].x + (hist.settles[k].y * w)
                /\ hist.pre.color_[c] # 0
                /\ color_[c] = hist.pre.color_[c]

\* --------------------------------------------- the dropout window (Spec)
\* The wall clock of the running tick is in minute 0, before second 15.
InWindow == wall.tm_min = 0 /\ wall.tm_sec < 15

BottomRow == { x + ((h - 1) * w) : x \in 0..(w - 1) }

\* C32: in a tick inside the dropout window the obstacle test of the
\* particles reports every cell with y >= h open (outside the window it
\* reports them solid), a particle the sweep left at y >= h is stopped,
\* the grid pass runs with drop_bottom (it examines every grain of the
\* bottom row and lets it fall unless it is crushed), and at the end of
\* the tick no cell of the bottom row holds static mass.
C32_DropoutOpensFloor ==
    /\ pc \in {"sweep", "grid"} =>
          \A x \in (-1)..w : \A y \in h..(h + 1) :
              obstacles(Pool, Dropout(wall), x, y) = ~InWindow
    /\ (hist.step = "sweep" /\ InWindow) =>
          \A i \in DOMAIN particles :
              particles[i].y >= h * Scale => ~particles[i].active
    /\ (hist.step = "grid" /\ InWindow) =>
          /\ \A c \in BottomRow :
                /\ color_[c] = 0
                /\ hist.pre.color_[c] # 0 =>
                      \E k \in DOMAIN hist.visits :
                          /\ hist.visits[k].x + (hist.visits[k].y * w) = c
                          /\ hist.visits[k].rule \in {"crush", "fall"}
    /\ (hist.step = "grid" /\ ~InWindow) =>
          \A k \in DOMAIN hist.visits : hist.visits[k].y < h - 1

\* A tick inside the window has ended: the two grains of the bottom row
\* have fallen as particles.
C32_Witness ==
    /\ hist.step = "grid" /\ InWindow
    /\ Cardinality({ c \in BottomRow : hist.pre.color_[c] # 0 }) = 2
    /\ \A c \in BottomRow : color_[c] = 0
    /\ Cardinality({ i \in DOMAIN particles :
                       /\ particles[i].origin = "fall"
                       /\ particles[i].active
                       /\ particles[i].src \in BottomRow }) = 2

\* --------------------------------------------- the walls (Spec)
\* C33 as stated: the obstacle test reports every cell outside the grid
\* solid, rows y >= h excepted inside the dropout window, and the position
\* of an active particle never leaves the grid.
C33_PositionsStayInGrid ==
    /\ \A x \in (-2)..(w + 1) : \A y \in (-2)..(h + 1) :
          ~InGrid(x, y) =>
              (obstacles(Pool, Dropout(wall), x, y)
                  = ~(InWindow /\ y >= h))
    /\ \A i \in DOMAIN particles :
          particles[i].active =>
              /\ 0 <= particles[i].x /\ particles[i].x < w * Scale
              /\ 0 <= particles[i].y /\ particles[i].y < h * Scale

\* C33 amended: the test is asked about cells, and a coordinate is
\* converted to its cell by truncation towards zero, so a position less
\* than one cell left of column 0 or above row 0 counts as column 0 or
\* row 0; it is the cell of an active particle that never leaves the grid.
C33_CellsStayInGrid ==
    /\ \A x \in (-2)..(w + 1) : \A y \in (-2)..(h + 1) :
          ~InGrid(x, y) =>
              (obstacles(Pool, Dropout(wall), x, y)
                  = ~(InWindow /\ y >= h))
    /\ \A i \in DOMAIN particles :
          particles[i].active =>
              /\ InGrid(ToInt(particles[i].x), ToInt(particles[i].y))
              /\ -Scale < particles[i].x /\ particles[i].x < w * Scale
              /\ -Scale < particles[i].y /\ particles[i].y < h * Scale

\* Outside the dropout window a sweep has moved an active particle to a
\* position left of column 0 and above row 0; its cell is (0, 0).
C33_Witness ==
    /\ hist.step = "sweep" /\ ~InWindow
    /\ \E i \in DOMAIN particles :
          /\ particles[i].active
          /\ particles[i].x < 0 /\ particles[i].y < 0
          /\ hist.pre.particles[i].x >= 0 /\ hist.pre.particles[i].y >= 0
          /\ ToInt(particles[i].x) = 0 /\ ToInt(particles[i].y) = 0

\* ------------------------------------------------------- SpecClock
\* A DigitalClock alone: set_time called with any sequence of times.
ClockTimes ==
    { Tm(hh, mm, ss) : hh \in {8, 9}, mm \in {0, 8, 9}, ss \in {5, 20, 40} }

\* One call of DigitalClock::set_time(&t).  hist.changed is the value
\* returned, hist.previous the segments shown before the call.
SetTime(t) ==
    \E c \in {set_time(t)} :
        /\ fb' = c.fb
        /\ segment' = c.segment
        /\ last_second_' = c.last_second_
        /\ last_minute_' = c.last_minute_
        /\ palette1' = c.palette1
        /\ wall' = t
        /\ hist' = [NoHist EXCEPT !.step = "set_time",
                                  !.changed = c.changed,
                                  !.previous = segment]
        /\ UNCHANGED <<menu, w, h, needs_paint, particles, have_live_particles,
                       color_, needs_sim_up_to, last_second, last_hour,
                       previous_segments, pc, ticks, generator, process>>

NextClock == \E t \in ClockTimes : SetTime(t)

SpecClock == InitFresh /\ [][NextClock]_vars

\* C34: after a call of set_time the digits show the hour and minute
\* passed, and the call has returned true exactly when the digits shown
\* before it differed from them.
C34_ShowsTimePassed ==
    hist.step = "set_time" =>
        /\ segment = ShownDigits(wall)
        /\ fb = render_digits(ShownDigits(wall))
        /\ hist.changed <=> (hist.previous # ShownDigits(wall))

\* set_time was passed a time in another second and another hour of the
\* same minute: it has returned false and the digits show the old hour.
C34_HourMissed ==
    /\ hist.step = "set_time" /\ ~hist.changed
    /\ last_second_ = wall.tm_sec /\ palette1 = hue_colour(wall)
    /\ last_minute_ = wall.tm_min
    /\ segment[1] # number(wall.tm_hour % 10)
    /\ segment[2] = number(wall.tm_min \div 10)
    /\ segment[3] = number(wall.tm_min % 10)
    /\ fb # render_digits(ShownDigits(wall))

\* -------------------------------------------------------- SpecMenu
\* Hack::Menu inside the event loop of menu(): every step is one turn of
\* `while(run && SDL_WaitEvent(&event))`.
kHSlices == 21
kVSlices == 15
q_w == (W * ((kHSlices - 3) \div 2)) \div kHSlices
q_h == (H * ((kVSlices - 3) \div 2)) \div kVSlices
q_x(i) == IF i \in {0, 2} THEN W \div kHSlices
          ELSE q_w + ((W * 2) \div kHSlices)
q_y(i) == IF i \in {0, 1} THEN H \div kVSlices
          ELSE q_h + ((H * 2) \div kVSlices)

\* The test of Menu::event on the position of a mouse event.
InQuarter(pt, i) ==
    /\ pt[1] >= q_x(i) /\ pt[1] <= q_x(i) + q_w
    /\ pt[2] >= q_y(i) /\ pt[2] <= q_y(i) + q_h

\* Positions a mouse event may carry: one inside each quarter, one outside
\* all of them.
Points == { <<1, 1>>, <<10, 1>>, <<1, 6>>, <<10, 6>>, <<W - 1, H - 1>> }

Events ==
    [type : {"SDL_MOUSEBUTTONDOWN", "SDL_MOUSEMOTION"}, at : Points]
    \cup [type : {"SDL_MOUSEBUTTONUP", "SDL_QUIT", "SDL_KEYDOWN"},
          at : {<<0, 0>>}]

\* Menu::click: the menu after the call, .result the value returned.
click(m, quarter) ==
    CASE m.page = "TOP" ->
            (CASE quarter = 0 -> [m EXCEPT !.result = "RETURN_TO_HACK"]
               [] quarter = 1 -> [m EXCEPT !.page = "CHOOSE_HACK",
                                           !.result = "KEEP_MENU"]
               [] quarter = 2 -> [m EXCEPT !.page = "SLEEP",
                                           !.result = "SCREEN_OFF"]
               [] quarter = 3 -> [m EXCEPT !.page = "SHUTDOWN",
                                           !.result = "SHUTDOWN"])
      [] m.page = "CHOOSE_HACK" ->
            (CASE quarter = 0 -> [m EXCEPT !.next_hack_ = "snowclock",
                                           !.result = "CHANGE_HACK"]
               [] quarter = 1 -> [m EXCEPT !.next_hack_ = "popclock",
                                           !.result = "CHANGE_HACK"]
               [] OTHER -> [m EXCEPT !.result = "KEEP_MENU"])
      [] m.page = "SLEEP" -> [m EXCEPT !.result = "WAKE"]
      [] m.page = "SHUTDOWN" -> [m EXCEPT !.result = "KEEP_MENU"]

\* The loop of SDL_MOUSEBUTTONUP over the quarters, from quarter i on.
RECURSIVE Release(_, _)
Release(m, i) ==
    IF i > 3 THEN m
    ELSE Then({IF m.q_down[i] THEN click(m, i) ELSE m}, LAMBDA m1 :
         Release([m1 EXCEPT !.q_down[i] = FALSE], i + 1))

\* Menu::event: the menu after the call, .result the value returned.
event(m, e) ==
    CASE e.type = "SDL_MOUSEBUTTONDOWN" ->
            [m EXCEPT !.q_down = [i \in 0..3 |-> @[i] \/ InQuarter(e.at, i)],
                      !.result = "KEEP_MENU"]
      [] e.type = "SDL_MOUSEMOTION" ->
            [m EXCEPT !.q_down = [i \in 0..3 |-> @[i] /\ InQuarter(e.at, i)],
                      !.result = "KEEP_MENU"]
      [] e.type = "SDL_MOUSEBUTTONUP" ->
            Release([m EXCEPT !.result = "KEEP_MENU"], 0)
      [] OTHER -> [m EXCEPT !.result = "KEEP_MENU"]

\* One turn of the loop of menu(): the event is handed to the menu, the
\* result and the event type decide whether the loop goes on.
MenuTurn(e) ==
    /\ menu.open /\ menu.run
    /\ LET m1 == event(menu, e)
           m2 == CASE m1.result = "CHANGE_HACK" ->
                         [m1 EXCEPT !.hack = m1.next_hack_, !.run = FALSE]
                   [] m1.result = "RETURN_TO_HACK" ->
                         [m1 EXCEPT !.run = FALSE]
                   [] OTHER -> m1
       IN  menu' = IF e.type = "SDL_QUIT" THEN [m2 EXCEPT !.run = FALSE]
                   ELSE m2
    /\ UNCHANGED <<w, h, fb, segment, last_second_, last_minute_, palette1,
                   needs_paint, particles, have_live_particles, color_,
                   needs_sim_up_to, last_second, last_hour,
                   previous_segments, pc, wall, ticks, hist, generator,
                   process>>

\* menu() has built its Menu over a running hack.
InitMenu ==
    /\ w = W /\ h = H
    /\ fb = {} /\ segment = NoSegments
    /\ last_second_ = -1 /\ last_minute_ = -1
    /\ palette1 = initial_colour
    /\ needs_paint = TRUE
    /\ particles = <<>> /\ have_live_particles = FALSE
    /\ color_ = EmptyGrid(W, H) /\ needs_sim_up_to = H
    /\ last_second = 0 /\ last_hour = -1
    /\ previous_segments = NoSegments
    /\ pc = "idle" /\ wall = Tm(0, 0, 0) /\ ticks = 0
    /\ hist = NoHist
    /\ generator = FreeGenerator /\ process = NoProcess
    /\ \E name \in {"popclock", "snowclock"} :
          menu = [NoMenu EXCEPT !.open = TRUE, !.run = TRUE, !.hack = name]

NextMenu == \E e \in Events : MenuTurn(e)

SpecMenu == InitMenu /\ [][NextMenu]_vars

\* C35: a click on the SLEEP page ends the event loop of menu(): once
\* Menu::click has returned WAKE the loop does not run on.
C35_WakeEndsMenu ==
    (menu.open /\ menu.result = "WAKE") => ~menu.run

\* The menu is on the SLEEP page, a click on a button has just been
\* answered with WAKE, and the loop still runs, waiting for the next event.
C35_StillInMenu ==
    /\ menu.open /\ menu.run
    /\ menu.page = "SLEEP" /\ menu.result = "WAKE"
    /\ \A i \in 0..3 : ~menu.q_down[i]

\* --------------------------------------------- settling on a grain
\* C36: the cell a settling particle is written to is empty just before
\* the write.
C36_SettlesIntoEmptyCell ==
    hist.step = "sweep" =>
        \A k \in DOMAIN hist.settles :
            InGrid(hist.settles[k].x, hist.settles[k].y) =>
                hist.settles[k].was = 0

\* A particle has settled into the cell in which another particle had
\* settled before it: the cell held that grain's colour before the write
\* and holds the new one after it, and the grid holds one grain where two
\* particles came to rest.
C36_GrainOverwritten ==
    /\ hist.step = "sweep"
    /\ \E k \in DOMAIN hist.settles :
          /\ InGrid(hist.settles[k].x, hist.settles[k].y)
          /\ hist.settles[k].was # 0
          /\ hist.settles[k].was # hist.settles[k].color
          /\ hist.settles[k].is = hist.settles[k].color
          /\ Cardinality(Grains(color_)) = Cardinality(Grains(hist.pre.color_))
          /\ \E j \in DOMAIN particles :
                /\ j # hist.settles[k].slot
                /\ ~particles[j].active
                /\ particles[j].color = hist.settles[k].was
                /\ ToInt(particles[j].x) = hist.settles[k].x
                /\ ToInt(particles[j].y) = hist.settles[k].y

\* ------------------------------------------------------- SpecQuiet
\* The driver with the wall clock standing still at 08:08:20 (no shape
\* change, no dropout, no eruption), the main loop calling simulate for
\* ever.  The pool is compacted at SmallThreshold.  A particle is coming
\* down on a grain of the floor: the grain it becomes has both diagonals
\* open, or the left one only, or none.
Quiet ==
    { [shown |-> Tm(8, 8, 20), wall |-> Tm(8, 8, 20),
       parts |-> OnGrain, grains |-> {<<5, H - 1, 3>>}],
      [shown |-> Tm(8, 8, 20), wall |-> Tm(8, 8, 20),
       parts |-> OnGrain, grains |-> {<<5, H - 1, 3>>, <<6, H - 1, 4>>}],
      [shown |-> Tm(8, 8, 20), wall |-> Tm(8, 8, 20),
       parts |-> OnGrain,
       grains |-> {<<4, H - 1, 2>>, <<5, H - 1, 3>>, <<6, H - 1, 4>>}] }

InitQuiet == \E sc \in Quiet : Start(sc)

\* A grid pass in which every particle popped has drawn a horizontal
\* velocity that is not zero.
GridPassLively ==
    /\ GridPass
    /\ \A i \in (Len(particles) + 1)..Len(particles') : particles'[i].dx # 0

NextQuiet == SteadyTick \/ CompactingSweep \/ GridPass

\* The main loop runs every phase of every tick; of the draws of a grid
\* pass that pops, those with a horizontal velocity come up again and
\* again.
SpecQuiet ==
    /\ InitQuiet /\ [][NextQuiet]_vars
    /\ WF_vars(SteadyTick) /\ WF_vars(CompactingSweep) /\ WF_vars(GridPass)
    /\ SF_vars(GridPassLively)

\* No particle is active, and the last grid pass did nothing.
Quiescent ==
    /\ \A i \in DOMAIN particles : ~particles[i].active
    /\ hist.step = "grid" => ~hist.did

LowH == 1

LowTimes == { Tm(8, 8, 20), Tm(8, 0, 5), Tm(0, 8, 40) }

InitLow ==
    /\ w = W /\ h = LowH
    /\ fb = {} /\ segment = NoSegments
    /\ last_second_ = -1 /\ last_minute_ = -1
    /\ palette1 = initial_colour
    /\ needs_paint = TRUE
    /\ particles = <<>> /\ have_live_particles = FALSE
    /\ color_ = EmptyGrid(W, LowH) /\ needs_sim_up_to = LowH
    /\ last_second = 0 /\ last_hour = -1
    /\ previous_segments = NoSegments
    /\ pc = "idle" /\ wall = Tm(0, 0, 0) /\ ticks = 0
    /\ hist = NoHist
    /\ generator = FreeGenerator /\ process = NoProcess
    /\ menu = NoMenu

NextLow ==
    \/ \E t \in LowTimes : ticks < MaxTicks /\ TickBegin(t)
    \/ ParticleSweep
    \/ GridPass
    \/ Render

SpecLow == InitLow /\ [][NextLow]_vars

\* C38: needs_sim_up_to lies in [0, h], and every row the loop of
\* StaticParticles::simulate reads lies in [0, h - 1].
C38_CursorAndRowsInGrid ==
    /\ needs_sim_up_to \in 0..h
    /\ pc = "grid" =>
          \A y \in RowsRead(Pool, Dropout(wall)) : y \in 0..(h - 1)

\* The first tick has forced the cursor to the row above the grid, and the
\* pass that followed has found a value in front of color_ and popped it:
\* a particle from a cell that is not in the grid.
C38_RowAboveGridRead ==
    /\ hist.step = "grid"
    /\ hist.pre.needs_sim_up_to < 0
    /\ \E i \in DOMAIN particles :
          /\ particles[i].active
          /\ particles[i].src < 0
          /\ particles[i].origin \in {"fall", "repose"}
          /\ particles[i].color = StrayValue

\* C39: when the sweep of a tick is about to run and a particle of the pool
\* is active, have_live_particles is true, and the sweep steps every such
\* particle; have_live_particles goes from true to false only in a sweep
\* that found no particle active.
C39_LiveFlagCoversActive ==
    [][ /\ (pc = "sweep" /\ Live(particles) # {}) => have_live_particles
        /\ (pc = "sweep" /\ pc' = "grid") =>
              /\ Len(hist'.settles) <= Cardinality(Live(particles))
              /\ ~hist'.compacted =>
                    \A i \in Live(particles) : particles'[i] # particles[i]
        /\ (have_live_particles /\ ~have_live_particles') =>
              /\ pc = "sweep" /\ pc' = "grid"
              /\ Live(particles) = {}
              /\ Live(particles') = {} /\ color_' = color_
    ]_vars

\* A sweep has just found no particle active in a pool whose flag was still
\* set from the tick before, in which the last particle settled; the flag
\* is now clear.
C39_Witness ==
    /\ hist.step = "sweep" /\ pc = "grid"
    /\ hist.pre.have_live_particles /\ ~have_live_particles
    /\ hist.pre.particles # <<>>
    /\ \E c \in DOMAIN color_ : color_[c] # 0

\* The pool as the particle loop leaves it, before the have_live_particles
\* reset and the compaction.
AfterLoop ==
    SweepFrom([S |-> Pool, active_particles |-> 0, settles |-> <<>>],
              Dropout(wall), 1).S

\* C40: the particle loop leaves the pool at the size it found it, whether
\* particles move, bounce or settle into the grid; a step that lengthens
\* the pool is the beginning of a tick (eruption and segment pops) or a
\* grid pass; a step that shortens it is a sweep that compacted, and the
\* pool is then what the loop left, without the inactive slots.
C40_SweepKeepsPoolSize ==
    [][ /\ (pc = "sweep" /\ have_live_particles) =>
              /\ Len(AfterLoop.particles) = Len(particles)
              /\ \A i \in DOMAIN particles :
                    ~particles[i].active => AfterLoop.particles[i] = particles[i]
        /\ (pc = "sweep" /\ pc' = "grid" /\ ~hist'.compacted) =>
              Len(particles') = Len(particles)
        /\ Len(particles') > Len(particles) =>
              \/ /\ pc = "idle" /\ pc' = "sweep"
                 /\ \A i \in Appended :
                       particles'[i].origin \in {"erupt", "segment"}
              \/ /\ pc = "grid" /\ pc' = "idle"
                 /\ \A i \in Appended :
                       particles'[i].origin \in {"fall", "repose"}
        /\ Len(particles') < Len(particles) =>
              /\ pc = "sweep" /\ pc' = "grid" /\ hist'.compacted
              /\ particles' = SelectSeq(AfterLoop.particles, IsActive)
    ]_vars

\* A sweep in which a particle settled into the grid has compacted the
\* pool: it is shorter than the loop found it.
C40_Witness ==
    /\ hist.step = "sweep" /\ pc = "grid"
    /\ hist.compacted
    /\ Len(hist.settles) > 0
    /\ Len(particles) < Len(hist.pre.particles)

====
